---------------------------- MODULE Spec2Model ----------------------------
(***************************************************************************)
(* YouTrack MCP server: project scoping (server-core.ts) and the           *)
(* draft-based issue creation workflow (issues-api.ts).                    *)
(***************************************************************************)
EXTENDS Integers, Sequences, FiniteSets, TLC

VARIABLES
    defaultProjectId,   \* config.defaultProjectId (PROJECT_ID), fixed after start
    rIn, rOut,          \* one resolveProjectId call: its arguments and outcome
    sIn, sOut,          \* one command synthesis: creation params and command parts
    toolReq,            \* per tool call in flight: its name and arguments
    clientCalls,        \* the API client calls that tool call has made, in order
    toolResult,         \* what its CallTool handler returned or threw
    pc,                 \* per issues/create invocation: the step it is at
    args,               \* its tool arguments: projectId and the creation params
    createProjectId,    \* createIssue: its projectId parameter
    internalProjectId,  \* createIssue: internalProjectId
    draftId,            \* createIssue: draftId
    command,            \* createIssue: command
    issue,              \* createIssue: issue (the submission's response data)
    http,               \* the HTTP requests the invocation has sent, in order
    response,           \* what the invocation returned or threw
    drafts,             \* backend: the drafts that exist
    issues,             \* backend: the drafts that were submitted as issues
    nextDraft,          \* backend: how many drafts it has handed out
    updPc,              \* the updateIssue call: the step it is at
    updIssueId,         \* updateIssue: its issueId parameter
    updates,            \* updateIssue: its updates parameter
    basicFieldPayload,  \* updateIssue: the keys of basicFieldPayload
    commandParts,       \* updateIssue: commandParts
    cmdIndex,           \* updateIssue: the position of the for loop in commandParts
    commandErrors,      \* updateIssue: commandErrors
    updHttp,            \* the HTTP requests the updateIssue call has sent, in order
    updResponse,        \* what the updateIssue call returned or threw
    stPc,               \* the changeIssueState call: the step it is at
    stIssueId,          \* changeIssueState: its issueId parameter
    stNewState,         \* changeIssueState: its newState parameter
    stComment,          \* changeIssueState: its comment parameter
    stResolution,       \* changeIssueState: its resolution parameter
    stHttp,             \* the HTTP requests the changeIssueState call has sent
    stResponse,         \* what the changeIssueState call returned
    delPc,              \* the deleteIssue call: the step it is at
    delIssueId,         \* deleteIssue: its issueId parameter
    delHttp,            \* the HTTP requests the deleteIssue call has sent
    delResponse         \* what the deleteIssue call returned or threw

resolveVars == <<rIn, rOut>>
synthVars == <<sIn, sOut>>
scopeVars == <<toolReq, clientCalls, toolResult>>
invocationVars ==
    <<pc, args, createProjectId, internalProjectId, draftId, command, issue, http, response>>
backendVars == <<drafts, issues, nextDraft>>
createVars == <<invocationVars, backendVars>>
updateVars ==
    <<updPc, updIssueId, updates, basicFieldPayload, commandParts, cmdIndex, commandErrors,
      updHttp, updResponse>>
stateVars == <<stPc, stIssueId, stNewState, stComment, stResolution, stHttp, stResponse>>
deleteVars == <<delPc, delIssueId, delHttp, delResponse>>
vars ==
    <<defaultProjectId, resolveVars, synthVars, scopeVars, createVars, updateVars, stateVars,
      deleteVars>>

(***************************************************************************)
(* Values                                                                  *)
(***************************************************************************)
\* JavaScript undefined (an argument or config entry that is absent)
NoId == "<undefined>"
\* A call or computation that has not run yet
Pending == "<pending>"

\* JavaScript truthiness of an optional string: undefined and "" are falsy
Truthy(s) == s # NoId /\ s # ""

\* PROJECT_ID settings the server can start with
ConfigIds == {NoId, "", "TEAM", "OTHER", "0-1"}
\* projectId values a caller can pass
ProvidedIds == {NoId, "", "TEAM", "OTHER", "DEMO", "0-1"}

\* The Error thrown by resolveProjectId when no project id is available
MissingProjectIdError == "Project ID is required"

(***************************************************************************)
(* Scope resolver                                                          *)
(***************************************************************************)
\* A resolver that honours allowOverride instead of the configured project
resolveProjectId_override(configured, providedProjectId, allowOverride) ==
    IF Truthy(configured)
    THEN [ok |-> TRUE,
          id |-> IF Truthy(providedProjectId) /\ allowOverride
                 THEN providedProjectId ELSE configured,
          warn |-> Truthy(providedProjectId) /\ providedProjectId # configured
                   /\ ~allowOverride,
          error |-> ""]
    ELSE IF ~Truthy(providedProjectId)
    THEN [ok |-> FALSE, id |-> NoId, warn |-> FALSE, error |-> MissingProjectIdError]
    ELSE [ok |-> TRUE, id |-> providedProjectId, warn |-> FALSE, error |-> ""]

\* A resolver without the throw: an absent id is passed on
resolveProjectId_noThrow(configured, providedProjectId, allowOverride) ==
    IF Truthy(configured)
    THEN [ok |-> TRUE,
          id |-> configured,
          warn |-> Truthy(providedProjectId) /\ providedProjectId # configured
                   /\ ~allowOverride,
          error |-> ""]
    ELSE [ok |-> TRUE, id |-> providedProjectId, warn |-> FALSE, error |-> ""]

\* resolveProjectId(providedProjectId, allowOverride): ok = returned normally,
\* id = the returned project id, warn = logger.warn was called, error = thrown text
resolveProjectId(configured, providedProjectId, allowOverride) ==
    IF Truthy(configured)
    THEN [ok |-> TRUE,
          id |-> configured,
          warn |-> Truthy(providedProjectId) /\ providedProjectId # configured
                   /\ ~allowOverride,
          error |-> ""]
    ELSE IF ~Truthy(providedProjectId)
    THEN [ok |-> FALSE, id |-> NoId, warn |-> FALSE, error |-> MissingProjectIdError]
    ELSE [ok |-> TRUE, id |-> providedProjectId, warn |-> FALSE, error |-> ""]

(***************************************************************************)
(* Command synthesis for creation (createIssue, step 2)                    *)
(***************************************************************************)
\* An optional number (params.sorting): <<>> when absent, <<n>> when supplied
NoNumber == <<>>

\* String.prototype.toLowerCase on the type names the model draws
ToLowerCase(s) ==
    CASE s = "Task" -> "task"
      [] s = "BUG" -> "bug"
      [] s = "Bug" -> "bug"
      [] s = "DevOps" -> "devops"
      [] s = "Epic" -> "epic"
      [] s = "EPIC" -> "epic"
      [] s = "User Story" -> "user story"
      [] s = "Feature" -> "feature"
      [] s = "FEATURE" -> "feature"
      [] s = "Improvement" -> "improvement"
      [] OTHER -> s

\* typeStr = (params.type || '').toLowerCase()
TypeStr(params) == IF Truthy(params.type) THEN ToLowerCase(params.type) ELSE ""

\* Sorting emitted only when a type is given and is one of the three
SortingEligible_typeRequired(params) ==
    TypeStr(params) \in {"epic", "user story", "feature"}

\* ['epic', 'user story', 'feature'].includes(typeStr) || !params.type
SortingEligible(params) ==
    \/ TypeStr(params) \in {"epic", "user story", "feature"}
    \/ ~Truthy(params.type)

\* Dev_Team emitted for every type that has a team value
DevTeamEligible_anyType(params) == Truthy(params.devTeam)

\* ['task', 'feature', 'bug', 'devops'].includes(typeStr) && params.devTeam
DevTeamEligible(params) ==
    /\ TypeStr(params) \in {"task", "feature", "bug", "devops"}
    /\ Truthy(params.devTeam)

\* One entry of commandParts: the text key \o " " \o val
Part(k, v) == [key |-> k, val |-> v]
PartText(p) == p.key \o " " \o p.val

\* `${params.sorting ?? 0}`
SortingText(params) ==
    IF params.sorting = NoNumber THEN ToString(0) ELSE ToString(params.sorting[1])

\* A synthesis that also pushes a clause for the business process
CommandParts_withBusinessProc(params) ==
    (IF Truthy(params.parentId) THEN <<Part("subtask of", params.parentId)>> ELSE <<>>)
    \o (IF Truthy(params.type) THEN <<Part("Type:", params.type)>> ELSE <<>>)
    \o <<Part("Priority:", IF Truthy(params.priority) THEN params.priority ELSE "Normal")>>
    \o (IF SortingEligible(params) THEN <<Part("Sorting:", SortingText(params))>> ELSE <<>>)
    \o (IF DevTeamEligible(params) THEN <<Part("Dev_Team:", params.devTeam)>> ELSE <<>>)
    \o (IF Truthy(params.assignee) THEN <<Part("Assignee:", params.assignee)>> ELSE <<>>)
    \o (IF Truthy(params.businessProc)
        THEN <<Part("Business_proc", params.businessProc)>> ELSE <<>>)

\* A synthesis that treats priority as updateIssue does: no default
CommandParts_priorityIfSupplied(params) ==
    (IF Truthy(params.parentId) THEN <<Part("subtask of", params.parentId)>> ELSE <<>>)
    \o (IF Truthy(params.type) THEN <<Part("Type:", params.type)>> ELSE <<>>)
    \o (IF Truthy(params.priority) THEN <<Part("Priority:", params.priority)>> ELSE <<>>)
    \o (IF SortingEligible(params) THEN <<Part("Sorting:", SortingText(params))>> ELSE <<>>)
    \o (IF DevTeamEligible(params) THEN <<Part("Dev_Team:", params.devTeam)>> ELSE <<>>)
    \o (IF Truthy(params.assignee) THEN <<Part("Assignee:", params.assignee)>> ELSE <<>>)

\* commandParts, in push order
CommandParts(params) ==
    (IF Truthy(params.parentId) THEN <<Part("subtask of", params.parentId)>> ELSE <<>>)
    \o (IF Truthy(params.type) THEN <<Part("Type:", params.type)>> ELSE <<>>)
    \o <<Part("Priority:", IF Truthy(params.priority) THEN params.priority ELSE "Normal")>>
    \o (IF SortingEligible(params) THEN <<Part("Sorting:", SortingText(params))>> ELSE <<>>)
    \o (IF DevTeamEligible(params) THEN <<Part("Dev_Team:", params.devTeam)>> ELSE <<>>)
    \o (IF Truthy(params.assignee) THEN <<Part("Assignee:", params.assignee)>> ELSE <<>>)

\* Array.prototype.join(' ') over the rendered parts
RECURSIVE JoinSpace(_)
JoinSpace(texts) ==
    IF texts = <<>> THEN ""
    ELSE IF Len(texts) = 1 THEN texts[1]
    ELSE texts[1] \o " " \o JoinSpace(Tail(texts))

\* command = commandParts.join(' ')
CommandText(parts) == JoinSpace([i \in 1..Len(parts) |-> PartText(parts[i])])

\* Creation parameter values
TypeValues ==
    {NoId, "", "Task", "BUG", "DevOps", "Epic", "EPIC", "User Story", "Feature",
     "Improvement"}
PriorityValues == {NoId, "", "Critical"}
SortingValues == {NoNumber, <<0>>, <<5>>, <<-1>>}
DevTeamValues == {NoId, "", "Backend"}
AssigneeValues == {NoId, "jdoe"}
ParentIdValues == {NoId, "SC-1"}
BusinessProcValues == {NoId, "Sales"}

CreateParams ==
    [summary : {"X"}, type : TypeValues, priority : PriorityValues,
     sorting : SortingValues, devTeam : DevTeamValues, assignee : AssigneeValues,
     parentId : ParentIdValues, businessProc : BusinessProcValues]

SynthIdle ==
    [summary |-> "X", type |-> NoId, priority |-> NoId, sorting |-> NoNumber,
     devTeam |-> NoId, assignee |-> NoId, parentId |-> NoId, businessProc |-> NoId]
SynthPending == [done |-> FALSE, parts |-> <<>>, command |-> ""]

(***************************************************************************)
(* Query texts                                                             *)
(***************************************************************************)
\* A query text is a sequence of atoms; its string is their concatenation.
\* "project:" and "PROJECT:" are the filter keyword in two letter cases, " " is
\* one whitespace character, the other atoms are words without ':' or space.
QueryAtoms == {"project:", "PROJECT:", " ", "TEAM", "OTHER"}
MaxQueryLen == 5

\* args.query absent
NoQuery == <<NoId>>

RECURSIVE SeqsUpTo(_, _)
SeqsUpTo(S, n) ==
    IF n = 0 THEN {<<>>}
    ELSE LET shorter == SeqsUpTo(S, n - 1)
         IN  shorter \cup {Append(q, a) : q \in {x \in shorter : Len(x) = n - 1}, a \in S}

QueryTexts == SeqsUpTo(QueryAtoms, MaxQueryLen)

\* the atom matches /project:/i, i.e. its lower-cased text is 'project:'
IsProjectKw(a) == a \in {"project:", "PROJECT:"}
IsSpace(a) == a = " "

\* query.toLowerCase().includes('project:')
IncludesProjectKw(q) == \E i \in 1..Len(q) : IsProjectKw(q[i])

\* For a keyword at i: where \s* ends, i.e. the first non-space position after i
\* (Len(q) + 1 when only whitespace follows)
ValueStart(q, i) ==
    IF \E j \in (i + 1)..Len(q) : ~IsSpace(q[j])
    THEN CHOOSE j \in (i + 1)..Len(q) :
            /\ ~IsSpace(q[j])
            /\ \A k \in (i + 1)..(j - 1) : IsSpace(q[k])
    ELSE Len(q) + 1

\* Where the greedy \S+ starting at j ends
ValueEnd(q, j) ==
    CHOOSE e \in j..Len(q) :
        /\ \A k \in j..e : ~IsSpace(q[k])
        /\ (e = Len(q) \/ IsSpace(q[e + 1]))

\* The positions where /project:\s*\S+/i matches
MatchStarts(q) ==
    {i \in 1..Len(q) : IsProjectKw(q[i]) /\ ValueStart(q, i) <= Len(q)}

\* query.replace(/project:\s*\S+/i, `project: ${projectId}`): the first match only
ReplaceProjectClause(q, projectId) ==
    IF MatchStarts(q) = {} THEN q
    ELSE LET i == CHOOSE m \in MatchStarts(q) : \A n \in MatchStarts(q) : m <= n
             e == ValueEnd(q, ValueStart(q, i))
         IN  SubSeq(q, 1, i - 1) \o <<"project:", " ", projectId>>
             \o SubSeq(q, e + 1, Len(q))

\* `project: ${projectId} ${query}`
PrependProjectClause(q, projectId) == <<"project:", " ", projectId, " ">> \o q

\* The project filter clauses of a query text: the value following each keyword
FilterValues(q) ==
    {SubSeq(q, ValueStart(q, i), ValueEnd(q, ValueStart(q, i))) : i \in MatchStarts(q)}

\* The query is restricted to project p: it filters on p and on nothing else
RestrictedTo(q, p) ==
    /\ <<p>> \in FilterValues(q)
    /\ FilterValues(q) \subseteq {<<p>>}

(***************************************************************************)
(* Tool dispatch: the handlers that pass a project id or a query on        *)
(***************************************************************************)
\* projectId / targetProjectId values in tool arguments
ScopeIds == {NoId, "TEAM", "OTHER"}
IssueIds == {NoId, "SC-1"}
\* What the backend answers to the request of a single-request client method
BackendReplies == {"ok", "404 Not Found"}
\* What the backend answers to the one HTTP request of a query, search or count
QueryReplies == {"ok", "400 Bad Request", "500"}

\* An issueIds argument: missing, a single id given as a string, or an array
NoIssueIds == [kind |-> "undefined", items |-> <<>>]
IssueIdsArgs ==
    {NoIssueIds, [kind |-> "string", items |-> <<"SC-1">>],
     [kind |-> "array", items |-> <<>>], [kind |-> "array", items |-> <<"SC-1">>]}
\* Array.isArray
IsArray(v) == v.kind = "array"

\* The name and the arguments of a CallTool request; reply is what the backend
\* answers to the request the client method sends
Req(tool, action, projectId, targetProjectId, issueId, query, reply) ==
    [tool |-> tool, action |-> action, projectId |-> projectId,
     targetProjectId |-> targetProjectId, issueId |-> issueId, query |-> query,
     reply |-> reply, summary |-> NoId, targetIssueId |-> NoId, linkType |-> NoId,
     commentId |-> NoId, text |-> NoId, startDate |-> NoId, endDate |-> NoId,
     userId |-> NoId, issueIds |-> NoIssueIds, articleId |-> NoId,
     parentArticleId |-> NoId, childArticleId |-> NoId, duration |-> NoId,
     date |-> NoId, timeEntryId |-> NoId, workItemId |-> NoId, groupId |-> NoId,
     fieldId |-> NoId, bundleId |-> NoId, name |-> NoId, fieldType |-> NoId,
     value |-> NoId, activityId |-> NoId, queryId |-> NoId]

\* A client call that takes a project id
ProjectCall(api, project) ==
    [api |-> api, kind |-> "project", project |-> project, query |-> <<>>]
\* A request that carries a query text
QueryCall(api, q) == [api |-> api, kind |-> "query", project |-> NoId, query |-> q]
\* A client call with neither
PlainCall(api) == [api |-> api, kind |-> "plain", project |-> NoId, query |-> <<>>]

\* A handler's outcome: the calls it made, the number of 'override attempt
\* blocked' warnings it logged, and either the envelope it returned or what it threw
Returned(calls, warns, envelope) ==
    [calls |-> calls, warns |-> warns, thrown |-> "none", code |-> "",
     message |-> "", envelope |-> envelope]
Threw(calls, warns, class, code, message) ==
    [calls |-> calls, warns |-> warns, thrown |-> class, code |-> code,
     message |-> message, envelope |-> "none"]

\* resolveProjectId as the handlers call it (allowOverride left at its default)
Resolve(projectId) == resolveProjectId(defaultProjectId, projectId, FALSE)
WarnCount(projectId, n) == IF Resolve(projectId).warn THEN n ELSE 0

\* ParameterValidator.validateProjectId / validateIssueId / validateRequired:
\* a missing value is rejected with a ValidationError, any other is accepted
ValidProjectId(x) == Truthy(x)
ValidIssueId(x) == Truthy(x)
ValidRequiredQuery(q) == q # NoQuery /\ q # <<>>

\* ParameterValidator.validateRequired on an optional string
ValidRequired(x) == Truthy(x)
\* ParameterValidator.validateDate: a calendar date in ISO form is accepted
DateValues == {NoId, "2024-01-31", "31/01/2024"}
ValidDate(x) == x = "2024-01-31"

\* ParameterValidator.validateDuration: a duration such as 2h is accepted, a
\* missing one is rejected
DurationValues == {NoId, "2h"}
ValidDuration(x) == x = "2h"

\* ParameterValidator.toMcpError(ValidationError)
ValidationFailure(field) ==
    Threw(<<>>, 0, "McpError", "InvalidParams", "Invalid parameter: " \o field)
\* A ValidationError thrown outside a handler's own try, after the calls made so far
ValidationErrorAfter(calls, warns, field) ==
    Threw(calls, warns, "ValidationError", "", "Invalid parameter: " \o field)

\* The issue data of a response that carries none
NoIssue == [id |-> NoId, idReadable |-> NoId]

\* Error messages the transport raises for a failed request
ErrorTexts ==
    {"404 Not Found", "403 Forbidden", "connect ECONNREFUSED", "500 Internal Server Error"}

\* error.message.includes(marker), on ErrorTexts
MessageIncludes(text, marker) ==
    \/ text = "404 Not Found" /\ marker = "404"
    \/ text = "403 Forbidden" /\ marker \in {"403", "Forbidden"}
    \/ text = "connect ECONNREFUSED" /\ marker = "ECONNREFUSED"
    \/ text = "500 Internal Server Error" /\ marker = "500"

\* ResponseFormatter.formatError(message, context) and formatCreated(data, ..)
\* as createIssue calls them, and an McpError thrown by the dispatcher
NoResponse ==
    [status |-> "none", message |-> "", draftId |-> NoId, command |-> NoId,
     projectId |-> NoId, summary |-> NoId, action |-> NoId, issue |-> NoIssue]
FormatError(message, ctxDraftId, ctxCommand, ctxProjectId, ctxSummary, ctxAction) ==
    [status |-> "error", message |-> message, draftId |-> ctxDraftId,
     command |-> ctxCommand, projectId |-> ctxProjectId, summary |-> ctxSummary,
     action |-> ctxAction, issue |-> NoIssue]
FormatCreated(data, message) ==
    [NoResponse EXCEPT !.status = "success", !.message = message, !.issue = data]
McpErrorThrown(code, message) ==
    [NoResponse EXCEPT !.status = "thrown", !.message = message, !.action = code]

\* The outer catch of createIssue
CreateIssueCatch(errorMessage, pid, summary) ==
    IF MessageIncludes(errorMessage, "404") \/ MessageIncludes(errorMessage, "not found")
    THEN FormatError("Project " \o pid \o " not found. Please check the project ID.",
                     NoId, NoId, pid, summary, NoId)
    ELSE IF MessageIncludes(errorMessage, "403")
            \/ MessageIncludes(errorMessage, "Forbidden")
    THEN FormatError("You don't have permission to create issues in project "
                        \o pid \o ".",
                     NoId, NoId, pid, NoId, "create")
    ELSE IF \/ MessageIncludes(errorMessage, "circular structure")
            \/ MessageIncludes(errorMessage, "ECONNREFUSED")
            \/ MessageIncludes(errorMessage, "ETIMEDOUT")
            \/ MessageIncludes(errorMessage, "ENOTFOUND")
    THEN FormatError("Network error connecting to YouTrack. Check VPN/network connectivity.",
                     NoId, NoId, pid, NoId, "create")
    ELSE FormatError(errorMessage, NoId, NoId, pid, summary, "create")

\* A client method that makes one request. changeIssueState's catch turns the
\* failure into an error envelope carrying error.message; deleteIssue, linkIssues,
\* the comment methods and applyCommand have no catch and the failure propagates
ClientCall(call, reply, catches) ==
    IF reply = "ok" THEN Returned(<<call>>, 0, "client")
    ELSE IF catches THEN Returned(<<call>>, 0, "error: " \o reply)
    ELSE Threw(<<call>>, 0, "Error", "", reply)

\* The catch of getIssue
GetIssueCatch(errorMessage, issueId) ==
    IF MessageIncludes(errorMessage, "404") \/ MessageIncludes(errorMessage, "not found")
    THEN "Issue " \o issueId \o " does not exist or you don't have access to it."
    ELSE errorMessage

\* getIssueWatchers, toggleStar, addWatcher and removeWatcher: each has a catch
\* of its own that words the error envelope
GetIssueWatchers(reply) ==
    Returned(<<PlainCall("issues.getIssueWatchers")>>, 0,
             IF reply = "ok" THEN "client"
             ELSE "error: Failed to get watchers: " \o reply)
ToggleStar(reply) ==
    Returned(<<PlainCall("issues.toggleStar")>>, 0,
             IF reply = "ok" THEN "client"
             ELSE "error: Failed to toggle star: " \o reply)
AddWatcher(issueId, userId, reply) ==
    Returned(<<PlainCall("issues.addWatcher")>>, 0,
             IF reply = "ok" THEN "client"
             ELSE IF reply = "404 Not Found"   \* error.response?.status === 404
             THEN "error: Issue " \o issueId \o " or user " \o userId \o " not found."
             ELSE "error: Failed to add watcher: " \o reply)
RemoveWatcher(issueId, userId, reply) ==
    Returned(<<PlainCall("issues.removeWatcher")>>, 0,
             IF reply = "ok" THEN "client"
             ELSE IF reply = "404 Not Found"   \* error.response?.status === 404
             THEN "error: Issue " \o issueId \o ", user " \o userId
                  \o ", or watcher relationship not found."
             ELSE "error: Failed to remove watcher: " \o reply)

\* handleProjectsManage
HandleProjectsManage(req) ==
    LET r == Resolve(req.projectId)
        needsProjectId == req.action \in {"get", "validate", "fields", "status"}
        api == CASE req.action = "get" -> "projects.getProject"
                 [] req.action = "validate" -> "projects.validateProject"
                 [] req.action = "fields" -> "projects.getProjectCustomFields"
                 [] req.action = "status" -> "projects.getProjectStatistics"
                 [] OTHER -> ""
    IN  IF needsProjectId /\ ~r.ok
        THEN Threw(<<>>, 0, "Error", "", r.error)
        ELSE IF needsProjectId /\ ~ValidProjectId(r.id)
        THEN Threw(<<>>, WarnCount(req.projectId, 2), "McpError", "InvalidParams",
                   "Invalid project ID for " \o req.action \o " action")
        ELSE IF req.action = "list"
        THEN Returned(<<PlainCall("projects.listProjects")>>, 0, "client")
        ELSE IF needsProjectId
        THEN Returned(<<ProjectCall(api, r.id)>>, WarnCount(req.projectId, 2), "client")
        ELSE Threw(<<>>, 0, "Error", "", "Unknown projects action: " \o req.action)

\* IssuesAPIClient.queryIssues: one GET /issues, every failure turned into an envelope
QueryIssues(q, reply) ==
    [calls |-> <<QueryCall("GET /issues", q)>>,
     envelope |-> IF reply = "ok" THEN "list"
                  ELSE IF reply = "400 Bad Request" THEN "error: Invalid query syntax"
                  ELSE "error: " \o reply]

\* IssuesAPIClient.smartSearchIssues
SmartSearchIssues(searchQuery, projectId, reply) ==
    QueryIssues(IF Truthy(projectId) THEN PrependProjectClause(searchQuery, projectId)
                ELSE searchQuery, reply)

\* IssuesAPIClient.getIssueCount: one POST /issuesGetter/count
GetIssueCount(q, reply) ==
    [calls |-> <<QueryCall("POST /issuesGetter/count", q)>>,
     envelope |-> IF reply = "ok" THEN "success: count"
                  ELSE "error: Failed to get issue count: " \o reply]

\* A query handler that sends the query unscoped when no project id resolves
HandleQueryIssues_unscoped(req) ==
    LET r == Resolve(NoId)
        scopedQuery ==
            IF ~Truthy(r.id) THEN req.query
            ELSE IF ~IncludesProjectKw(req.query)
            THEN PrependProjectClause(req.query, r.id)
            ELSE IF Truthy(defaultProjectId)
            THEN ReplaceProjectClause(req.query, r.id)
            ELSE req.query
        sent == QueryIssues(IF r.ok THEN scopedQuery ELSE req.query, req.reply)
    IN  IF req.query = NoQuery
        THEN Threw(<<>>, 0, "Error", "", "TypeError: Cannot read properties of undefined")
        ELSE Returned(sent.calls, 0, sent.envelope)

\* handleQueryIssues
HandleQueryIssues(req) ==
    LET r == Resolve(NoId)
        scopedQuery ==
            IF ~Truthy(r.id) THEN req.query
            ELSE IF ~IncludesProjectKw(req.query)
            THEN PrependProjectClause(req.query, r.id)
            ELSE IF Truthy(defaultProjectId)
            THEN ReplaceProjectClause(req.query, r.id)
            ELSE req.query
        sent == QueryIssues(scopedQuery, req.reply)
    IN  IF ~r.ok THEN Threw(<<>>, 0, "Error", "", r.error)
        ELSE IF req.query = NoQuery
        THEN Threw(<<>>, 0, "Error", "", "TypeError: Cannot read properties of undefined")
        ELSE Returned(sent.calls, 0, sent.envelope)

\* handleIssuesManage: the actions that pass a project id or a query on
\* (create is CreateCall below)
HandleIssuesManage(req) ==
    LET r == Resolve(req.projectId)
    IN  CASE req.action = "get_field_values" ->
                IF ~ValidProjectId(req.projectId) THEN ValidationFailure("projectId")
                ELSE Returned(<<ProjectCall("issues.getProjectFieldValues", req.projectId)>>,
                              0, "client")
          [] req.action = "move" ->
                IF ~ValidIssueId(req.issueId) THEN ValidationFailure("issueId")
                ELSE IF ~ValidProjectId(req.targetProjectId)
                THEN ValidationFailure("targetProjectId")
                ELSE Returned(<<ProjectCall("issues.moveIssueToProject",
                                            req.targetProjectId)>>, 0, "client")
          [] req.action = "query" ->
                IF ~ValidRequiredQuery(req.query) THEN ValidationFailure("query")
                ELSE HandleQueryIssues(req)
          [] req.action = "search" ->
                IF ~ValidRequiredQuery(req.query) THEN ValidationFailure("query")
                ELSE IF ~r.ok THEN Threw(<<>>, 0, "Error", "", r.error)
                ELSE LET sent == SmartSearchIssues(req.query, r.id, req.reply)
                     IN  Returned(sent.calls, WarnCount(req.projectId, 1), sent.envelope)
          [] req.action = "count" ->
                IF ~ValidRequiredQuery(req.query) THEN ValidationFailure("query")
                ELSE LET sent == GetIssueCount(req.query, req.reply)
                     IN  Returned(sent.calls, 0, sent.envelope)
          [] req.action = "create" ->
                IF ~r.ok THEN Threw(<<>>, 0, "Error", "", r.error)
                ELSE IF ~ValidProjectId(r.id) THEN ValidationFailure("projectId")
                ELSE IF ~ValidRequired(req.summary)
                THEN Threw(<<>>, WarnCount(req.projectId, 1), "McpError", "InvalidParams",
                           "Invalid parameter: summary")
                ELSE Returned(<<ProjectCall("issues.createIssue", r.id)>>,
                              WarnCount(req.projectId, 2),
                              IF req.reply = "ok" THEN "client"
                              ELSE "error: "
                                   \o CreateIssueCatch(req.reply, r.id, req.summary).message)
          [] req.action = "update" ->
                \* the handler passes no tags on, so updateIssue has no step that
                \* throws: whatever the backend answers, it returns an envelope
                IF ~ValidIssueId(req.issueId) THEN ValidationFailure("issueId")
                ELSE Returned(<<PlainCall("issues.updateIssue")>>, 0, "client")
          [] req.action = "get" ->
                IF ~ValidIssueId(req.issueId) THEN ValidationFailure("issueId")
                ELSE Returned(<<PlainCall("issues.getIssue")>>, 0,
                              IF req.reply = "ok" THEN "client"
                              ELSE "error: " \o GetIssueCatch(req.reply, req.issueId))
          [] req.action \in {"state", "complete", "start"} ->
                IF ~ValidIssueId(req.issueId) THEN ValidationFailure("issueId")
                ELSE ClientCall(PlainCall(CASE req.action = "state" -> "issues.changeIssueState"
                                            [] req.action = "complete" -> "issues.completeIssue"
                                            [] OTHER -> "issues.startWorkingOnIssue"),
                                req.reply, TRUE)
          [] req.action = "watchers" ->
                IF ~ValidIssueId(req.issueId) THEN ValidationFailure("issueId")
                ELSE GetIssueWatchers(req.reply)
          [] req.action = "toggle_star" ->
                IF ~ValidIssueId(req.issueId) THEN ValidationFailure("issueId")
                ELSE ToggleStar(req.reply)
          [] req.action \in {"add_watcher", "remove_watcher"} ->
                IF ~ValidIssueId(req.issueId) THEN ValidationFailure("issueId")
                ELSE IF ~ValidRequired(req.userId) THEN ValidationFailure("userId")
                ELSE IF req.action = "add_watcher"
                THEN AddWatcher(req.issueId, req.userId, req.reply)
                ELSE RemoveWatcher(req.issueId, req.userId, req.reply)
          [] req.action = "delete" ->
                IF ~ValidIssueId(req.issueId) THEN ValidationFailure("issueId")
                ELSE ClientCall(PlainCall("issues.deleteIssue"), req.reply, FALSE)
          [] req.action = "link" ->
                IF ~ValidIssueId(req.issueId) THEN ValidationFailure("issueId")
                ELSE IF ~ValidIssueId(req.targetIssueId)
                THEN ValidationFailure("targetIssueId")
                ELSE IF req.linkType # NoId /\ ~ValidRequired(req.linkType)
                THEN ValidationFailure("linkType")
                ELSE ClientCall(PlainCall("issues.linkIssues"), req.reply, FALSE)
          [] OTHER -> Threw(<<>>, 0, "Error", "", "Unknown issues action: " \o req.action)

\* handleCommentsManage
HandleCommentsManage(req) ==
    IF ~ValidIssueId(req.issueId) THEN ValidationFailure("issueId")
    ELSE IF req.action \in {"add", "update"} /\ ~ValidRequired(req.text)
    THEN ValidationFailure("text")
    ELSE IF req.action \in {"update", "delete"} /\ ~ValidRequired(req.commentId)
    THEN ValidationFailure("commentId")
    ELSE CASE req.action = "get" ->
                ClientCall(PlainCall("issues.getIssueComments"), req.reply, FALSE)
           [] req.action = "add" ->
                ClientCall(PlainCall("issues.addComment"), req.reply, FALSE)
           [] req.action = "update" ->
                ClientCall(PlainCall("issues.updateComment"), req.reply, FALSE)
           [] req.action = "delete" ->
                ClientCall(PlainCall("issues.deleteComment"), req.reply, FALSE)
           [] OTHER ->
                Threw(<<>>, 0, "Error", "", "Unknown comments action: " \o req.action)

\* handleAgileManage: boards passes the caller's project id on
HandleAgileManage(req) ==
    LET api == CASE req.action = "board_details" -> "agile.getBoardDetails"
                 [] req.action = "sprints" -> "agile.listSprints"
                 [] req.action = "sprint_details" -> "agile.getSprintDetails"
                 [] req.action = "create_sprint" -> "agile.createSprint"
                 [] req.action = "update_sprint" -> "agile.updateSprint"
                 [] req.action = "delete_sprint" -> "agile.deleteSprint"
                 [] req.action = "archive_sprint" -> "agile.archiveSprint"
                 [] req.action = "sprint_issues" -> "agile.getSprintIssues"
                 [] req.action = "assign_issues" -> "agile.assignIssuesToSprint"
                 [] OTHER -> ""
    IN  IF req.action = "boards"
        THEN Returned(<<ProjectCall("agile.listAgileBoards", req.projectId)>>, 0, "client")
        ELSE IF req.action = "assign_issues" /\ ~IsArray(req.issueIds)
        THEN Threw(<<>>, 0, "Error", "", "issueIds must be an array of issue IDs")
        ELSE IF api # ""
        THEN Returned(<<PlainCall(api)>>, 0, "client")
        ELSE Threw(<<>>, 0, "Error", "",
                   "Unknown agile action: " \o req.action
                   \o ". Available actions: boards, board_details, sprints, "
                   \o "sprint_details, create_sprint, update_sprint, delete_sprint, "
                   \o "archive_sprint, sprint_issues, assign_issues")

\* handleKnowledgeManage: list, create and search resolve the project
HandleKnowledgeManage(req) ==
    LET r == Resolve(req.projectId)
        scoped == CASE req.action = "list" -> "knowledgeBase.listArticles"
                    [] req.action = "create" -> "knowledgeBase.createArticle"
                    [] req.action = "search" -> "knowledgeBase.searchArticles"
                    [] OTHER -> ""
        plain == CASE req.action = "get" -> "knowledgeBase.getArticle"
                   [] req.action = "update" -> "knowledgeBase.updateArticle"
                   [] req.action = "delete" -> "knowledgeBase.deleteArticle"
                   [] req.action = "link_sub_article" -> "knowledgeBase.linkAsSubArticle"
                   [] req.action = "unlink_parent" -> "knowledgeBase.unlinkFromParent"
                   [] req.action = "get_hierarchy" -> "knowledgeBase.getArticleHierarchy"
                   [] OTHER -> ""
    IN  IF scoped # ""
        THEN IF ~r.ok THEN Threw(<<>>, 0, "Error", "", r.error)
             ELSE Returned(<<ProjectCall(scoped, r.id)>>, WarnCount(req.projectId, 1),
                           "client")
        ELSE IF /\ req.action = "link_sub_article"
                /\ (~Truthy(req.parentArticleId) \/ ~Truthy(req.childArticleId))
        THEN Threw(<<>>, 0, "Error", "",
                   "Both parentArticleId and childArticleId are required for "
                   \o "link_sub_article action")
        ELSE IF req.action \in {"unlink_parent", "get_hierarchy"} /\ ~Truthy(req.articleId)
        THEN Threw(<<>>, 0, "Error", "",
                   "articleId is required for " \o req.action \o " action")
        ELSE IF plain # ""
        THEN Returned(<<PlainCall(plain)>>, 0, "client")
        ELSE Threw(<<>>, 0, "Error", "", "Unknown knowledge action: " \o req.action)

\* handleAnalyticsReport; req.reply is the outcome of projects.validateProject
HandleAnalyticsReport(req) ==
    LET r == Resolve(req.projectId)
        needsProjectId ==
            req.action \in {"project_stats", "gantt", "critical_path", "resource_allocation"}
        check == <<ProjectCall("projects.validateProject", r.id)>>
        api == CASE req.action = "project_stats" -> "projects.getProjectStatistics"
                 [] req.action = "gantt" -> "admin.generateGanttChart"
                 [] req.action = "critical_path" -> "admin.getCriticalPath"
                 [] req.action = "resource_allocation" -> "admin.getResourceAllocation"
                 [] OTHER -> ""
    IN  IF needsProjectId /\ ~r.ok THEN Threw(<<>>, 0, "Error", "", r.error)
        ELSE IF needsProjectId /\ ~ValidProjectId(r.id)
        THEN Threw(<<>>, WarnCount(req.projectId, 2), "McpError", "InvalidParams",
                   "Invalid project ID for " \o req.action \o " report")
        ELSE IF needsProjectId /\ req.reply # "ok"
        THEN Threw(check, WarnCount(req.projectId, 2), "McpError", "InvalidParams",
                   "Invalid project ID for " \o req.action \o " report")
        ELSE IF Truthy(req.startDate) /\ ~ValidDate(req.startDate)
        THEN ValidationErrorAfter(IF needsProjectId THEN check ELSE <<>>,
                                  IF needsProjectId THEN WarnCount(req.projectId, 1) ELSE 0,
                                  "startDate")
        ELSE IF Truthy(req.endDate) /\ ~ValidDate(req.endDate)
        THEN ValidationErrorAfter(IF needsProjectId THEN check ELSE <<>>,
                                  IF needsProjectId THEN WarnCount(req.projectId, 1) ELSE 0,
                                  "endDate")
        ELSE IF needsProjectId
        THEN Returned(check \o <<ProjectCall(api, r.id)>>, WarnCount(req.projectId, 2),
                      "client")
        ELSE IF req.action = "time_tracking"
        THEN Returned(<<ProjectCall("admin.getTimeTrackingReport", req.projectId)>>,
                      0, "client")
        ELSE IF req.action = "milestone_progress"
        THEN Returned(<<PlainCall("admin.getMilestoneProgress")>>, 0, "client")
        ELSE Threw(<<>>, 0, "Error", "", "Unknown report type: " \o req.action)

\* handleAdminOperations: project_fields and field_values resolve the project
\* (req.action holds args.operation)
HandleAdminOperations(req) ==
    LET r == Resolve(req.projectId)
        scoped == CASE req.action = "project_fields" -> "projects.getProjectCustomFields"
                    [] req.action = "field_values" -> "projects.getProjectFieldValues"
                    [] OTHER -> ""
        plain == CASE req.action = "search_users" -> "admin.searchUsers"
                   [] req.action = "bulk_update" -> "admin.bulkUpdateIssues"
                   [] req.action = "dependencies" -> "admin.createIssueDependency"
                   [] OTHER -> ""
    IN  IF scoped # ""
        THEN IF ~r.ok THEN Threw(<<>>, 0, "Error", "", r.error)
             ELSE Returned(<<ProjectCall(scoped, r.id)>>, WarnCount(req.projectId, 1),
                           "client")
        ELSE IF plain # ""
        THEN Returned(<<PlainCall(plain)>>, 0, "client")
        ELSE Threw(<<>>, 0, "Error", "", "Unknown admin operation: " \o req.action)

\* handleTimeTracking: get_work_items and time_reports pass the caller's
\* project id on
HandleTimeTracking(req) ==
    LET plain == CASE req.action = "log_time" -> "workItems.logTimeToIssue"
                   [] req.action = "get_time_entries" -> "workItems.getTimeEntries"
                   [] req.action = "update_time_entry" -> "workItems.updateTimeEntry"
                   [] req.action = "delete_time_entry" -> "workItems.deleteTimeEntry"
                   [] req.action = "create_work_item" -> "workItems.createWorkItem"
                   [] req.action = "update_work_item" -> "workItems.updateWorkItem"
                   [] OTHER -> ""
    IN  IF /\ req.action \in {"log_time", "get_time_entries", "get_work_items",
                              "create_work_item"}
           /\ ~ValidIssueId(req.issueId)
        THEN ValidationFailure("issueId")
        ELSE IF req.action = "log_time" /\ ~ValidDuration(req.duration)
        THEN ValidationFailure("duration")
        ELSE IF Truthy(req.date) /\ ~ValidDate(req.date)
        THEN ValidationFailure("date")
        ELSE IF Truthy(req.startDate) /\ ~ValidDate(req.startDate)
        THEN ValidationFailure("startDate")
        ELSE IF Truthy(req.endDate) /\ ~ValidDate(req.endDate)
        THEN ValidationFailure("endDate")
        ELSE IF /\ req.action \in {"update_time_entry", "delete_time_entry"}
                /\ ~ValidRequired(req.timeEntryId)
        THEN ValidationFailure("timeEntryId")
        ELSE IF req.action = "update_work_item" /\ ~ValidRequired(req.workItemId)
        THEN ValidationFailure("workItemId")
        ELSE IF req.action = "get_work_items"
        THEN Returned(<<ProjectCall("workItems.getWorkItems", req.projectId)>>, 0, "client")
        ELSE IF req.action = "time_reports"
        THEN Returned(<<ProjectCall("workItems.generateTimeReport", req.projectId)>>,
                      0, "client")
        ELSE IF plain # ""
        THEN Returned(<<PlainCall(plain)>>, 0, "client")
        ELSE Threw(<<>>, 0, "Error", "", "Unknown time tracking action: " \o req.action)

\* handleUsersManage: project_team and add_to_team pass the caller's project id on
HandleUsersManage(req) ==
    LET plain == CASE req.action = "list" -> "users.listUsers"
                   [] req.action = "search" -> "users.searchUsers"
                   [] req.action = "get" -> "users.getUser"
                   [] req.action = "current" -> "users.getCurrentUser"
                   [] req.action = "saved_queries" -> "users.getUserSavedQueries"
                   [] req.action = "list_groups" -> "users.listGroups"
                   [] req.action = "get_group" -> "users.getGroup"
                   [] req.action = "group_members" -> "users.getGroupMembers"
                   [] OTHER -> ""
        scoped == CASE req.action = "project_team" -> "users.getProjectTeam"
                    [] req.action = "add_to_team" -> "users.addUserToProjectTeam"
                    [] OTHER -> ""
    IN  IF req.action \in {"get", "saved_queries"} /\ ~ValidRequired(req.userId)
        THEN ValidationFailure("userId")
        ELSE IF req.action \in {"get_group", "group_members"} /\ ~ValidRequired(req.groupId)
        THEN ValidationFailure("groupId")
        ELSE IF scoped # "" /\ ~ValidProjectId(req.projectId)
        THEN ValidationFailure("projectId")
        ELSE IF req.action = "search" /\ ~ValidRequiredQuery(req.query)
        THEN ValidationFailure("query")
        ELSE IF req.action = "add_to_team" /\ ~ValidRequired(req.userId)
        THEN ValidationFailure("userId")
        ELSE IF scoped # ""
        THEN Returned(<<ProjectCall(scoped, req.projectId)>>, 0, "client")
        ELSE IF plain # ""
        THEN Returned(<<PlainCall(plain)>>, 0, "client")
        ELSE Threw(<<>>, 0, "Error", "", "Unknown users action: " \o req.action)

\* handleCustomFieldsManage: project_fields, add_to_project and
\* remove_from_project pass the caller's project id on
HandleCustomFieldsManage(req) ==
    LET plain == CASE req.action = "list" -> "customFields.listCustomFields"
                   [] req.action = "get" -> "customFields.getCustomField"
                   [] req.action = "create" -> "customFields.createCustomField"
                   [] req.action = "update" -> "customFields.updateCustomField"
                   [] req.action = "delete" -> "customFields.deleteCustomField"
                   [] req.action = "types" -> "customFields.listFieldTypes"
                   [] req.action = "list_bundles" -> "customFields.listEnumBundles"
                   [] req.action = "get_bundle" -> "customFields.getEnumBundle"
                   [] req.action = "create_bundle" -> "customFields.createEnumBundle"
                   [] req.action = "add_bundle_value" -> "customFields.addEnumBundleValue"
                   [] req.action = "issue_fields" -> "customFields.getIssueCustomFields"
                   [] req.action = "update_issue_field" ->
                            "customFields.updateIssueCustomFieldValue"
                   [] OTHER -> ""
        scoped == CASE req.action = "project_fields" ->
                            "customFields.getProjectCustomFields"
                    [] req.action = "add_to_project" ->
                            "customFields.addCustomFieldToProject"
                    [] req.action = "remove_from_project" ->
                            "customFields.removeCustomFieldFromProject"
                    [] OTHER -> ""
    IN  IF /\ req.action \in {"get", "update", "delete", "add_to_project",
                              "remove_from_project", "update_issue_field"}
           /\ ~ValidRequired(req.fieldId)
        THEN ValidationFailure("fieldId")
        ELSE IF /\ req.action \in {"get_bundle", "add_bundle_value"}
                /\ ~ValidRequired(req.bundleId)
        THEN ValidationFailure("bundleId")
        ELSE IF scoped # "" /\ ~ValidProjectId(req.projectId)
        THEN ValidationFailure("projectId")
        ELSE IF /\ req.action \in {"issue_fields", "update_issue_field"}
                /\ ~ValidIssueId(req.issueId)
        THEN ValidationFailure("issueId")
        ELSE IF req.action = "create" /\ ~ValidRequired(req.name)
        THEN ValidationFailure("name")
        ELSE IF req.action = "create" /\ ~ValidRequired(req.fieldType)
        THEN ValidationFailure("fieldType")
        ELSE IF /\ req.action \in {"create_bundle", "add_bundle_value"}
                /\ ~ValidRequired(req.name)
        THEN ValidationFailure("name")
        ELSE IF req.action = "update_issue_field" /\ ~ValidRequired(req.value)
        THEN ValidationFailure("value")
        ELSE IF scoped # ""
        THEN Returned(<<ProjectCall(scoped, req.projectId)>>, 0, "client")
        ELSE IF plain # ""
        THEN Returned(<<PlainCall(plain)>>, 0, "client")
        ELSE Threw(<<>>, 0, "Error", "", "Unknown custom fields action: " \o req.action)

\* handleSearchAssist
HandleSearchAssist(req) ==
    IF req.query \in {NoQuery, <<>>}
    THEN Threw(<<>>, 0, "Error", "", "query is required for search_assist")
    ELSE Returned(<<PlainCall("searchAssist.getSuggestions")>>, 0, "client")

\* handleCommands: apply and suggest
HandleCommands(req) ==
    IF req.query \in {NoQuery, <<>>}
    THEN Threw(<<>>, 0, "Error", "", "query is required for commands")
    ELSE CASE req.action = "apply" ->
                ClientCall(PlainCall("commands.applyCommand"), req.reply, FALSE)
           [] req.action = "suggest" ->
                Returned(<<PlainCall("commands.getCommandSuggestions")>>, 0, "client")
           [] OTHER ->
                Threw(<<>>, 0, "Error", "", "Unknown commands action: " \o req.action)

\* handleActivities
HandleActivities(req) ==
    LET api == CASE req.action = "get_global" -> "activities.getActivities"
                 [] req.action = "get_activity" -> "activities.getActivity"
                 [] req.action = "get_page" -> "activities.getActivitiesPage"
                 [] req.action = "get_issue" -> "activities.getIssueActivities"
                 [] req.action = "get_issue_activity" -> "activities.getIssueActivity"
                 [] req.action = "get_issue_page" -> "activities.getIssueActivitiesPage"
                 [] OTHER -> ""
    IN  IF /\ req.action \in {"get_issue", "get_issue_activity", "get_issue_page"}
           /\ ~Truthy(req.issueId)
        THEN Threw(<<>>, 0, "Error", "",
                   "issueId is required for " \o req.action \o " action")
        ELSE IF /\ req.action \in {"get_activity", "get_issue_activity"}
                /\ ~Truthy(req.activityId)
        THEN Threw(<<>>, 0, "Error", "",
                   "activityId is required for " \o req.action \o " action")
        ELSE IF api # ""
        THEN Returned(<<PlainCall(api)>>, 0, "client")
        ELSE Threw(<<>>, 0, "Error", "", "Unknown activities action: " \o req.action)

\* handleSavedQueries
HandleSavedQueries(req) ==
    LET api == CASE req.action = "list" -> "savedQueries.listSavedQueries"
                 [] req.action = "get" -> "savedQueries.getSavedQuery"
                 [] req.action = "create" -> "savedQueries.createSavedQuery"
                 [] req.action = "update" -> "savedQueries.updateSavedQuery"
                 [] req.action = "delete" -> "savedQueries.deleteSavedQuery"
                 [] OTHER -> ""
    IN  IF req.action \in {"get", "update", "delete"} /\ ~Truthy(req.queryId)
        THEN Threw(<<>>, 0, "Error", "",
                   "queryId is required for " \o req.action \o " action")
        ELSE IF req.action = "create" /\ ~Truthy(req.name)
        THEN Threw(<<>>, 0, "Error", "", "name is required for create action")
        ELSE IF req.action = "create" /\ req.query \in {NoQuery, <<>>}
        THEN Threw(<<>>, 0, "Error", "", "query is required for create action")
        ELSE IF api # ""
        THEN Returned(<<PlainCall(api)>>, 0, "client")
        ELSE Threw(<<>>, 0, "Error", "", "Unknown saved_queries action: " \o req.action)

\* coreTools.handleAuthManage / handleNotifications / handleSubscriptions:
\* they take no client and answer with an envelope of their own
HandleCoreTools(req) == Returned(<<>>, 0, "core")

\* The tools the server registers
RegisteredTools ==
    {"projects", "issues", "query", "comments", "agile_boards", "knowledge_base",
     "analytics", "admin", "time_tracking", "users", "custom_fields", "auth",
     "notifications", "subscriptions", "activities", "commands", "search_assist",
     "saved_queries"}

\* suggestToolName(name): a hint at the closest registered name, or the list of tools
SuggestToolName(name) ==
    CASE name \in {"issue", "Issues"} -> "Did you mean 'issues'?"
      [] name = "search" -> "Did you mean 'query'?"
      [] OTHER -> "Use one of the available tools."

\* The switch of the CallTool request handler
CallTool_silentDefault(req) ==
    CASE req.tool = "projects" -> HandleProjectsManage(req)
      [] req.tool = "issues" -> HandleIssuesManage(req)
      [] req.tool = "query" -> HandleQueryIssues(req)
      [] req.tool = "comments" -> HandleCommentsManage(req)
      [] req.tool = "agile_boards" -> HandleAgileManage(req)
      [] req.tool = "knowledge_base" -> HandleKnowledgeManage(req)
      [] req.tool = "analytics" -> HandleAnalyticsReport(req)
      [] req.tool = "admin" -> HandleAdminOperations(req)
      [] req.tool = "time_tracking" -> HandleTimeTracking(req)
      [] req.tool = "users" -> HandleUsersManage(req)
      [] req.tool = "custom_fields" -> HandleCustomFieldsManage(req)
      [] req.tool \in {"auth", "notifications", "subscriptions"} -> HandleCoreTools(req)
      [] req.tool = "activities" -> HandleActivities(req)
      [] req.tool = "commands" -> HandleCommands(req)
      [] req.tool = "search_assist" -> HandleSearchAssist(req)
      [] req.tool = "saved_queries" -> HandleSavedQueries(req)
      [] OTHER -> Returned(<<>>, 0, "none")
CallTool(req) ==
    CASE req.tool = "projects" -> HandleProjectsManage(req)
      [] req.tool = "issues" -> HandleIssuesManage(req)
      [] req.tool = "query" -> HandleQueryIssues(req)
      [] req.tool = "comments" -> HandleCommentsManage(req)
      [] req.tool = "agile_boards" -> HandleAgileManage(req)
      [] req.tool = "knowledge_base" -> HandleKnowledgeManage(req)
      [] req.tool = "analytics" -> HandleAnalyticsReport(req)
      [] req.tool = "admin" -> HandleAdminOperations(req)
      [] req.tool = "time_tracking" -> HandleTimeTracking(req)
      [] req.tool = "users" -> HandleUsersManage(req)
      [] req.tool = "custom_fields" -> HandleCustomFieldsManage(req)
      [] req.tool \in {"auth", "notifications", "subscriptions"} -> HandleCoreTools(req)
      [] req.tool = "activities" -> HandleActivities(req)
      [] req.tool = "commands" -> HandleCommands(req)
      [] req.tool = "search_assist" -> HandleSearchAssist(req)
      [] req.tool = "saved_queries" -> HandleSavedQueries(req)
      [] OTHER -> Threw(<<>>, 0, "McpError", "MethodNotFound",
                        "Unknown tool: " \o req.tool \o ". " \o SuggestToolName(req.tool))

\* The catch of the CallTool request handler: an McpError is rethrown as it is,
\* anything else is wrapped into an InternalError
Dispatch(h) ==
    IF h.thrown \in {"none", "McpError"} THEN h
    ELSE [h EXCEPT !.thrown = "McpError", !.code = "InternalError",
                   !.message = "Tool execution failed: " \o h.message]

\* The tool calls the server can have in flight
NumInv == 2
Inv == 1..NumInv

NoRequest == Req("", "", NoId, NoId, NoId, <<>>, "ok")
NoResult == Returned(<<>>, 0, "none")
\* The handler of a call is waiting for the backend
HandlerPending == Returned(<<>>, 0, Pending)
ScopeIdle ==
    /\ toolReq = [s \in Inv |-> NoRequest]
    /\ clientCalls = [s \in Inv |-> <<>>]
    /\ toolResult = [s \in Inv |-> NoResult]

(***************************************************************************)
(* createIssue: the draft-based creation workflow                          *)
(***************************************************************************)
\* How many drafts the backend hands out before the model stops taking calls
MaxDrafts == 2

\* /^\d+-\d+$/.test(projectId), on the project ids the model draws
IsInternalId(id) == id \in {"0-1", "77-1072"}

\* The id the backend reports for a project short name
InternalIdOf(shortName) == "77-1072"
\* The ids the backend gives its n-th draft and the issue made from it
DraftIdOf(n) == "draft-" \o ToString(n)
IssueOf(draft, withReadable) ==
    [id |-> "issue-of-" \o draft,
     idReadable |-> IF withReadable THEN "SC-of-" \o draft ELSE NoId]

\* One HTTP request and what came back: target is the project, draft or issue it
\* addresses, query the command text or field value it carries
Http(op, target, query, reply) ==
    [op |-> op, target |-> target, query |-> query, reply |-> reply]

\* The success response of createIssue
CreatedResponse(data, summary) ==
    FormatCreated(data,
        "Issue \"" \o summary \o "\" created successfully as "
            \o (IF Truthy(data.idReadable) THEN data.idReadable ELSE data.id))

CreateIdle ==
    /\ pc = [i \in Inv |-> "idle"]
    /\ args = [i \in Inv |-> [projectId |-> NoId, params |-> SynthIdle]]
    /\ createProjectId = [i \in Inv |-> NoId]
    /\ internalProjectId = [i \in Inv |-> NoId]
    /\ draftId = [i \in Inv |-> NoId]
    /\ command = [i \in Inv |-> NoId]
    /\ issue = [i \in Inv |-> NoIssue]
    /\ http = [i \in Inv |-> <<>>]
    /\ response = [i \in Inv |-> NoResponse]
    /\ drafts = {}
    /\ issues = {}
    /\ nextDraft = 0

(***************************************************************************)
(* updateIssue: one command per field, direct writes, re-fetch             *)
(***************************************************************************)
\* updates.tags when the caller gave none (undefined)
NoTags == <<NoId>>

\* Math.floor(n / 60)
Hours(n) == n \div 60
\* n % 60 in JavaScript: the remainder takes the sign of the dividend
Minutes(n) == IF n >= 0 THEN n % 60 ELSE 0 - ((0 - n) % 60)

\* estParts: a part is pushed when its number is truthy, that is, not zero
EstParts(n) ==
    (IF Hours(n) # 0 THEN <<ToString(Hours(n)) \o "h">> ELSE <<>>)
        \o (IF Minutes(n) # 0 THEN <<ToString(Minutes(n)) \o "m">> ELSE <<>>)

\* estimationStr
EstimationStr(n) == IF EstParts(n) # <<>> THEN JoinSpace(EstParts(n)) ELSE "0m"

\* The command pushed for a numeric updates.estimation
EstimationCommand(n) == "Estimation " \o EstimationStr(n)

\* A synthesis that defaults the priority as creation does
UpdateCommandParts_defaultPriority(u) ==
    (IF Truthy(u.state) THEN <<"State: " \o u.state>> ELSE <<>>)
        \o <<"Priority: " \o (IF Truthy(u.priority) THEN u.priority ELSE "Normal")>>
        \o (IF Truthy(u.type) THEN <<"Type: " \o u.type>> ELSE <<>>)
        \o (IF Truthy(u.assignee) THEN <<"Assignee: " \o u.assignee>> ELSE <<>>)
        \o (IF Truthy(u.subsystem) THEN <<"Subsystem: " \o u.subsystem>> ELSE <<>>)
        \o (IF u.estimation # NoNumber THEN <<EstimationCommand(u.estimation[1])>>
            ELSE <<>>)

\* commandParts of updateIssue, in push order
UpdateCommandParts(u) ==
    (IF Truthy(u.state) THEN <<"State: " \o u.state>> ELSE <<>>)
        \o (IF Truthy(u.priority) THEN <<"Priority: " \o u.priority>> ELSE <<>>)
        \o (IF Truthy(u.type) THEN <<"Type: " \o u.type>> ELSE <<>>)
        \o (IF Truthy(u.assignee) THEN <<"Assignee: " \o u.assignee>> ELSE <<>>)
        \o (IF Truthy(u.subsystem) THEN <<"Subsystem: " \o u.subsystem>> ELSE <<>>)
        \o (IF u.estimation # NoNumber THEN <<EstimationCommand(u.estimation[1])>>
            ELSE <<>>)

\* Object.keys(basicFieldPayload)
BasicFieldKeys(u) ==
    (IF Truthy(u.summary) THEN {"summary"} ELSE {})
        \cup (IF Truthy(u.description) THEN {"description"} ELSE {})

\* updates.tags && updates.tags.length > 0
HasTags(u) == u.tags # NoTags /\ u.tags # <<>>

\* An updates object with no field set
NoUpdates ==
    [summary |-> NoId, description |-> NoId, state |-> NoId, priority |-> NoId,
     type |-> NoId, assignee |-> NoId, subsystem |-> NoId, estimation |-> NoNumber,
     tags |-> NoTags]

\* ResponseFormatter.formatUpdated(updatedIssue || { id: issueId }, 'Issue',
\* updates, message, meta); meta.commandErrors is left out when there are none,
\* which the empty list stands for
NoUpdateResponse ==
    [status |-> "none", data |-> NoIssue, message |-> "", appliedCommands |-> 0,
     commandErrorsCount |-> 0, commandErrors |-> <<>>]
FormatUpdated(data, message, applied, errors) ==
    [status |-> "updated", data |-> data, message |-> message,
     appliedCommands |-> applied, commandErrorsCount |-> Len(errors),
     commandErrors |-> errors]

UpdateIdle ==
    /\ updPc = "idle"
    /\ updIssueId = NoId
    /\ updates = NoUpdates
    /\ basicFieldPayload = {}
    /\ commandParts = <<>>
    /\ cmdIndex = 1
    /\ commandErrors = <<>>
    /\ updHttp = <<>>
    /\ updResponse = NoUpdateResponse

\* No changeIssueState call in progress
\* ResponseFormatter.formatUpdated as changeIssueState calls it: the updates
\* it reports are the state and the resolution it was given
NoStateResponse ==
    [status |-> "none", data |-> NoIssue, message |-> "",
     updates |-> [state |-> NoId, resolution |-> NoId]]

StateIdle ==
    /\ stPc = "idle"
    /\ stIssueId = NoId
    /\ stNewState = NoId
    /\ stComment = NoId
    /\ stResolution = NoId
    /\ stHttp = <<>>
    /\ stResponse = NoStateResponse

\* What deleteIssue returned (ResponseFormatter.formatDeleted) or threw
NoDeleteResponse == [status |-> "none", id |-> NoId, message |-> ""]
DeleteIdle ==
    /\ delPc = "idle"
    /\ delIssueId = NoId
    /\ delHttp = <<>>
    /\ delResponse = NoDeleteResponse

\* The outcome slot of a resolveProjectId call that has not run
ResolvePending == [ok |-> FALSE, id |-> NoId, warn |-> FALSE, error |-> Pending]
ResolveDone == rOut.error # Pending


InitResolve ==
    /\ defaultProjectId \in ConfigIds
    /\ rIn \in [provided : ProvidedIds, allowOverride : BOOLEAN]
    /\ rOut = ResolvePending
    /\ sIn = SynthIdle
    /\ sOut = SynthPending
    /\ ScopeIdle
    /\ CreateIdle
    /\ UpdateIdle
    /\ StateIdle
    /\ DeleteIdle

\* One call of resolveProjectId with the drawn arguments
ResolveCall ==
    /\ ~ResolveDone
    /\ rOut' = resolveProjectId(defaultProjectId, rIn.provided, rIn.allowOverride)
    /\ UNCHANGED <<defaultProjectId, stateVars, deleteVars, updateVars, rIn, synthVars, scopeVars, createVars>>

NextResolve == ResolveCall

SpecResolve == InitResolve /\ [][NextResolve]_vars

\* C1: with an enforced project id configured, resolveProjectId returns the
\* enforced id for every providedId and both values of allowOverride, never
\* throws, and logs a warning exactly for a differing providedId without override.
C1_EnforcedIdAlwaysReturned ==
    (ResolveDone /\ Truthy(defaultProjectId)) =>
        /\ rOut.ok
        /\ rOut.id = defaultProjectId
        /\ rOut.error = ""
        /\ rOut.warn <=> (/\ Truthy(rIn.provided)
                          /\ rIn.provided # defaultProjectId
                          /\ ~rIn.allowOverride)

C1_Witness ==
    /\ ResolveDone
    /\ defaultProjectId = "TEAM"
    /\ rIn.provided = "OTHER"
    /\ ~rIn.allowOverride
    /\ rOut.id = "TEAM"
    /\ rOut.warn


(***************************************************************************)
(* Synthesis of the draft command as a function of the creation params     *)
(***************************************************************************)
InitSynth ==
    /\ defaultProjectId = NoId
    /\ rIn = [provided |-> NoId, allowOverride |-> FALSE]
    /\ rOut = ResolvePending
    /\ sIn \in CreateParams
    /\ sOut = SynthPending
    /\ ScopeIdle
    /\ CreateIdle
    /\ UpdateIdle
    /\ StateIdle
    /\ DeleteIdle

\* Step 2 of createIssue up to the join: build commandParts and the command
Synthesize ==
    /\ ~sOut.done
    /\ sOut' = [done |-> TRUE, parts |-> CommandParts(sIn),
                command |-> CommandText(CommandParts(sIn))]
    /\ UNCHANGED <<defaultProjectId, stateVars, deleteVars, updateVars, resolveVars, sIn, scopeVars, createVars>>

NextSynth == Synthesize

SpecSynth == InitSynth /\ [][NextSynth]_vars

\* The parts of a command that set the given field
PartsFor(parts, k) == {i \in 1..Len(parts) : parts[i].key = k}

\* C9: the command holds exactly one Sorting: clause, with the supplied value or
\* 0, iff the lower-cased type is epic, user story or feature or no type was
\* supplied; for every other type (task, bug, devops, any case) it holds none.
C9_SortingClause ==
    sOut.done =>
        LET n == Cardinality(PartsFor(sOut.parts, "Sorting:"))
            wanted == \/ sIn.type \in {NoId, ""}
                      \/ sIn.type \in {"Epic", "EPIC", "epic", "User Story",
                                       "user story", "Feature", "FEATURE", "feature"}
            value == IF sIn.sorting = <<>> THEN "0" ELSE ToString(sIn.sorting[1])
        IN  /\ wanted => /\ n = 1
                         /\ \A i \in PartsFor(sOut.parts, "Sorting:") :
                                sOut.parts[i].val = value
            /\ ~wanted => n = 0

C9_Witness ==
    /\ sOut.done
    /\ sIn.type = "EPIC"
    /\ sIn.sorting = <<5>>
    /\ sOut.command = "Type: EPIC Priority: Normal Sorting: 5"

\* C10: the command holds a Dev_Team: clause iff the lower-cased type is task,
\* feature, bug or devops and a non-empty devTeam was supplied.
C10_DevTeamClause ==
    sOut.done =>
        LET n == Cardinality(PartsFor(sOut.parts, "Dev_Team:"))
            wanted == /\ sIn.type \in {"Task", "task", "BUG", "Bug", "bug", "DevOps",
                                       "devops", "Feature", "FEATURE", "feature"}
                      /\ sIn.devTeam \notin {NoId, ""}
        IN  /\ wanted => /\ n = 1
                         /\ \A i \in PartsFor(sOut.parts, "Dev_Team:") :
                                sOut.parts[i].val = sIn.devTeam
            /\ ~wanted => n = 0

C10_Witness ==
    /\ sOut.done
    /\ sIn.type = "Task"
    /\ sIn.devTeam = "Backend"
    /\ sIn.parentId = NoId
    /\ sIn.assignee = NoId
    /\ sOut.command = "Type: Task Priority: Normal Dev_Team: Backend"


(***************************************************************************)
(* The server serving tool calls; a handler gives way at every await, so   *)
(* the calls in flight advance in any order                                *)
(***************************************************************************)
InitScope ==
    /\ defaultProjectId \in {NoId, "TEAM"}
    /\ rIn = [provided |-> NoId, allowOverride |-> FALSE]
    /\ rOut = ResolvePending
    /\ sIn = SynthIdle
    /\ sOut = SynthPending
    /\ ScopeIdle
    /\ CreateIdle
    /\ UpdateIdle
    /\ StateIdle
    /\ DeleteIdle

\* What the CallTool handler ends in for a request, and the client calls it
\* makes on the way
Outcome(req) == Dispatch(CallTool(req))

NothingInFlight == \A s \in Inv : toolReq[s] = NoRequest

\* A request arrives: its handler runs up to its first await, that is until it
\* has sent its first client call, or to its end when it makes none
Receive(req) ==
    \E s \in Inv :
        /\ toolReq[s] = NoRequest
        /\ \A t \in Inv : t < s => toolReq[t] # NoRequest
        /\ toolReq' = [toolReq EXCEPT ![s] = req]
        /\ clientCalls' = [clientCalls EXCEPT
                              ![s] = IF Outcome(req).calls = <<>> THEN <<>>
                                     ELSE <<Outcome(req).calls[1]>>]
        /\ toolResult' = [toolResult EXCEPT
                            ![s] = IF Outcome(req).calls = <<>> THEN Outcome(req)
                                   ELSE HandlerPending]
        /\ UNCHANGED <<defaultProjectId, stateVars, deleteVars, updateVars, resolveVars, synthVars,
                       createVars>>

\* The awaited client call of a handler settles: the handler goes on to its
\* next client call, or to its end
Resume ==
    \E s \in Inv :
        /\ toolResult[s] = HandlerPending
        /\ LET o == Outcome(toolReq[s])
               n == Len(clientCalls[s])
           IN  IF n < Len(o.calls)
               THEN /\ clientCalls' = [clientCalls EXCEPT ![s] = Append(@, o.calls[n + 1])]
                    /\ UNCHANGED toolResult
               ELSE /\ toolResult' = [toolResult EXCEPT ![s] = o]
                    /\ UNCHANGED clientCalls
        /\ UNCHANGED <<toolReq, defaultProjectId, stateVars, deleteVars, updateVars, resolveVars,
                       synthVars, createVars>>

QueryArgs == QueryTexts \cup {NoQuery}

CallProjects ==
    /\ NothingInFlight
    /\ \E a \in {"list", "get", "validate", "fields", "status", "archive"}, p \in ScopeIds :
        Receive(Req("projects", a, p, NoId, NoId, <<>>, "ok"))

\* What the backend answers a request of an issues action: success or one of
\* the transport's failures
IssueReplies == {"ok"} \cup ErrorTexts

CallIssues ==
    /\ NothingInFlight
    /\ \/ \E p \in ScopeIds :
            Receive(Req("issues", "get_field_values", p, NoId, NoId, <<>>, "ok"))
       \/ \E t \in ScopeIds, i \in IssueIds :
            Receive(Req("issues", "move", NoId, t, i, <<>>, "ok"))
       \/ \E a \in {"query", "count"}, q \in QueryArgs, reply \in QueryReplies :
            Receive(Req("issues", a, NoId, NoId, NoId, q, reply))
       \/ \E p \in ScopeIds, q \in QueryArgs, reply \in QueryReplies :
            Receive(Req("issues", "search", p, NoId, NoId, q, reply))
       \/ \E p \in ScopeIds, sm \in {NoId, "", "X"}, reply \in IssueReplies :
            Receive([Req("issues", "create", p, NoId, NoId, <<>>, reply)
                        EXCEPT !.summary = sm])
       \/ \E a \in {"update", "get", "state", "delete", "complete", "start", "watchers",
                    "toggle_star", "archive"},
              i \in IssueIds, reply \in IssueReplies :
            Receive(Req("issues", a, NoId, NoId, i, <<>>, reply))
       \/ \E a \in {"add_watcher", "remove_watcher"}, i \in IssueIds,
              u \in {NoId, "jdoe"}, reply \in IssueReplies :
            Receive([Req("issues", a, NoId, NoId, i, <<>>, reply) EXCEPT !.userId = u])
       \/ \E i \in IssueIds, t \in IssueIds, lt \in {NoId, "", "relates to"},
              reply \in BackendReplies :
            Receive([Req("issues", "link", NoId, NoId, i, <<>>, reply)
                        EXCEPT !.targetIssueId = t, !.linkType = lt])

CallComments ==
    /\ NothingInFlight
    /\ \E a \in {"get", "add", "update", "delete", "pin"}, i \in IssueIds,
          c \in {NoId, "4-17"}, t \in {NoId, "", "Looks good"}, reply \in BackendReplies :
        Receive([Req("comments", a, NoId, NoId, i, <<>>, reply)
                    EXCEPT !.commentId = c, !.text = t])

CallQuery ==
    /\ NothingInFlight
    /\ \E q \in QueryArgs, reply \in QueryReplies :
        Receive(Req("query", "", NoId, NoId, NoId, q, reply))

CallAgile ==
    /\ NothingInFlight
    /\ \E a \in {"boards", "board_details", "sprints", "sprint_details", "create_sprint",
                 "update_sprint", "delete_sprint", "archive_sprint", "sprint_issues",
                 "assign_issues", "burndown"},
          p \in ScopeIds, ids \in IssueIdsArgs :
        Receive([Req("agile_boards", a, p, NoId, NoId, <<>>, "ok") EXCEPT !.issueIds = ids])

CallKnowledge ==
    /\ NothingInFlight
    /\ \E a \in {"list", "get", "create", "update", "delete", "search",
                 "link_sub_article", "unlink_parent", "get_hierarchy", "export"},
          p \in ScopeIds, art \in {NoId, "A-1"}, par \in {NoId, "A-1"},
          ch \in {NoId, "A-2"} :
        Receive([Req("knowledge_base", a, p, NoId, NoId, <<>>, "ok")
                    EXCEPT !.articleId = art, !.parentArticleId = par,
                           !.childArticleId = ch])

CallAnalytics ==
    /\ NothingInFlight
    /\ \E a \in {"project_stats", "time_tracking", "gantt", "critical_path",
              "resource_allocation", "milestone_progress", "velocity"},
       p \in ScopeIds, reply \in {"ok", "404"}, sd \in DateValues, ed \in DateValues :
        Receive([Req("analytics", a, p, NoId, NoId, <<>>, reply)
                    EXCEPT !.startDate = sd, !.endDate = ed])

CallAdmin ==
    /\ NothingInFlight
    /\ \E a \in {"search_users", "project_fields", "field_values", "bulk_update",
                 "dependencies", "purge"},
          p \in ScopeIds :
        Receive(Req("admin", a, p, NoId, NoId, <<>>, "ok"))

CallTimeTracking ==
    /\ NothingInFlight
    /\ \E a \in {"log_time", "get_time_entries", "update_time_entry", "delete_time_entry",
                 "get_work_items", "create_work_item", "update_work_item",
                 "time_reports", "punch"},
          p \in ScopeIds, i \in IssueIds, du \in DurationValues, d \in DateValues,
          sd \in DateValues, ed \in DateValues, e \in {NoId, "7-1"}, w \in {NoId, "8-1"} :
        Receive([Req("time_tracking", a, p, NoId, i, <<>>, "ok")
                    EXCEPT !.duration = du, !.date = d, !.startDate = sd,
                           !.endDate = ed, !.timeEntryId = e, !.workItemId = w])

CallUsers ==
    /\ NothingInFlight
    /\ \E a \in {"list", "search", "get", "current", "saved_queries", "list_groups",
                 "get_group", "group_members", "project_team", "add_to_team",
                 "impersonate"},
          p \in ScopeIds, u \in {NoId, "jdoe"}, g \in {NoId, "devs"},
          q \in {NoQuery, <<>>, <<"TEAM">>} :
        Receive([Req("users", a, p, NoId, NoId, q, "ok")
                    EXCEPT !.userId = u, !.groupId = g])

CallCustomFields ==
    /\ NothingInFlight
    /\ \E a \in {"list", "get", "create", "update", "delete", "types", "list_bundles",
                 "get_bundle", "create_bundle", "add_bundle_value", "project_fields",
                 "add_to_project", "remove_from_project", "issue_fields",
                 "update_issue_field", "rename"},
          p \in ScopeIds, i \in IssueIds, f \in {NoId, "58-1"}, b \in {NoId, "66-1"},
          n \in {NoId, "Severity"}, ft \in {NoId, "enum[1]"}, v \in {NoId, "High"} :
        Receive([Req("custom_fields", a, p, NoId, i, <<>>, "ok")
                    EXCEPT !.fieldId = f, !.bundleId = b, !.name = n, !.fieldType = ft,
                           !.value = v])

CallActivities ==
    /\ NothingInFlight
    /\ \E a \in {"get_global", "get_activity", "get_page", "get_issue",
                 "get_issue_activity", "get_issue_page", "replay"},
          i \in IssueIds, act \in {NoId, "9-1"} :
        Receive([Req("activities", a, NoId, NoId, i, <<>>, "ok") EXCEPT !.activityId = act])

CallSavedQueries ==
    /\ NothingInFlight
    /\ \E a \in {"list", "get", "create", "update", "delete", "share"},
          qid \in {NoId, "5-1"}, n \in {NoId, "Mine"}, q \in {NoQuery, <<>>, <<"TEAM">>} :
        Receive([Req("saved_queries", a, NoId, NoId, NoId, q, "ok")
                    EXCEPT !.queryId = qid, !.name = n])

\* The tools whose handlers take neither a project id nor an issue id
CallOtherTools ==
    /\ NothingInFlight
    /\ \E t \in {"auth", "notifications", "subscriptions", "commands", "search_assist"},
          a \in {"list", "apply", "suggest", "status"},
          q \in {NoQuery, <<>>, <<"TEAM">>}, reply \in BackendReplies :
        Receive(Req(t, a, NoId, NoId, NoId, q, reply))

\* A tool name the server does not register
UnknownToolNames == {"issue", "Issues", "search", "delete", "drop_database"}
CallUnknownTool ==
    /\ NothingInFlight
    /\ \E t \in UnknownToolNames, a \in {"", "list"}, p \in ScopeIds :
        Receive(Req(t, a, p, NoId, NoId, <<>>, "ok"))

\* The requests whose overlap with each other is explored: a report that makes
\* two client calls, scoped and unscoped queries, a creation, calls that end in
\* a thrown error, and a tool that is not registered
OverlapRequests ==
    {[Req("analytics", "gantt", "OTHER", NoId, NoId, <<>>, "ok")
         EXCEPT !.startDate = "31/01/2024"],
     Req("analytics", "gantt", "OTHER", NoId, NoId, <<>>, "ok"),
     Req("query", "", NoId, NoId, NoId, <<"project:", "OTHER">>, "ok"),
     Req("issues", "count", NoId, NoId, NoId, <<"project:", "OTHER">>, "500"),
     [Req("issues", "create", "OTHER", NoId, NoId, <<>>, "ok") EXCEPT !.summary = "X"],
     Req("issues", "delete", NoId, NoId, "SC-1", <<>>, "404 Not Found"),
     Req("issues", "update", NoId, NoId, "SC-1", <<>>, "404 Not Found"),
     [Req("users", "add_to_team", "OTHER", NoId, NoId, NoQuery, "ok")
         EXCEPT !.userId = "jdoe"],
     Req("issue", "list", "OTHER", NoId, NoId, <<>>, "ok")}

\* A request arrives while the handlers of earlier ones are still awaiting
CallWhileServing ==
    /\ ~NothingInFlight
    /\ \A s \in Inv : toolReq[s] \in OverlapRequests \cup {NoRequest}
    /\ \E req \in OverlapRequests : Receive(req)

\* The response of a call whose handler has ended goes back to the caller
Respond ==
    \E s \in Inv :
        /\ toolReq[s] # NoRequest
        /\ toolResult[s] # HandlerPending
        /\ toolReq' = [toolReq EXCEPT ![s] = NoRequest]
        /\ clientCalls' = [clientCalls EXCEPT ![s] = <<>>]
        /\ toolResult' = [toolResult EXCEPT ![s] = NoResult]
        /\ UNCHANGED <<defaultProjectId, stateVars, deleteVars, updateVars, resolveVars, synthVars,
                       createVars>>

NextScope ==
    \/ CallProjects
    \/ CallIssues
    \/ CallQuery
    \/ CallAgile
    \/ CallKnowledge
    \/ CallAnalytics
    \/ CallAdmin
    \/ CallTimeTracking
    \/ CallUsers
    \/ CallCustomFields
    \/ CallComments
    \/ CallActivities
    \/ CallSavedQueries
    \/ CallOtherTools
    \/ CallUnknownTool
    \/ CallWhileServing
    \/ Resume
    \/ Respond

SpecScope == InitScope /\ [][NextScope]_vars

\* The fields the handlers validate, and the messages of a rejected argument
ValidatedFields ==
    {"projectId", "targetProjectId", "issueId", "targetIssueId", "linkType", "query",
     "summary", "commentId", "text", "startDate", "endDate", "userId", "duration",
     "date", "timeEntryId", "workItemId", "groupId", "fieldId", "bundleId", "name",
     "fieldType", "value"}
ValidationRejected(s) ==
    /\ toolResult[s].thrown # "none"
    /\ \E f \in ValidatedFields :
        toolResult[s].message \in {"Invalid parameter: " \o f,
                                   "Tool execution failed: Invalid parameter: " \o f}

\* C15: a tool call rejected because an argument failed validation has issued
\* no backend request.
C15_ValidationBeforeBackend ==
    \A s \in Inv : ValidationRejected(s) => clientCalls[s] = <<>>

\* C16: for every issues and comments action, a failing backend request ends
\* in an envelope returned by the dispatcher, never in a thrown error.
C16_BackendFailureIsEnvelope ==
    \A s \in Inv :
        (/\ toolReq[s].tool \in {"issues", "comments"}
         /\ clientCalls[s] # <<>>
         /\ toolReq[s].reply # "ok") => toolResult[s].thrown = "none"

\* C17: a tool name that is not registered fails with a method-not-found error
\* that names the tool and carries the suggestion; no handler runs and no
\* backend call is made.
C17_UnknownToolRejected ==
    \A s \in Inv :
        (toolReq[s] # NoRequest /\ toolReq[s].tool \notin RegisteredTools) =>
            /\ toolResult[s].thrown = "McpError"
            /\ toolResult[s].code = "MethodNotFound"
            /\ toolResult[s].message
                  = "Unknown tool: " \o toolReq[s].tool \o ". "
                    \o SuggestToolName(toolReq[s].tool)
            /\ clientCalls[s] = <<>>
            /\ toolResult[s].warns = 0

C17_Witness ==
    \E s \in Inv :
        /\ toolReq[s].tool = "issue"
        /\ toolResult[s].code = "MethodNotFound"
        /\ toolResult[s].message = "Unknown tool: issue. Did you mean 'issues'?"
        /\ \E t \in Inv : toolResult[t] = HandlerPending

\* C2: with an enforced project id, every client call that takes a project id
\* is given the enforced id, whatever projectId or targetProjectId was supplied.
C2_EveryProjectCallEnforced ==
    Truthy(defaultProjectId) =>
        \A s \in Inv : \A i \in 1..Len(clientCalls[s]) :
            clientCalls[s][i].kind = "project" =>
                clientCalls[s][i].project = defaultProjectId

\* C4: with an enforced project id P, the query the 'query' tool sends to the
\* backend filters on P and holds no project filter clause for another project.
C4_QueryToolRestricted ==
    \A s \in Inv :
        (Truthy(defaultProjectId) /\ toolReq[s].tool = "query") =>
            \A i \in 1..Len(clientCalls[s]) :
                clientCalls[s][i].kind = "query" =>
                    RestrictedTo(clientCalls[s][i].query, defaultProjectId)

\* C5: with PROJECT_ID configured, the issues actions query, search and count
\* each send a query restricted to the configured project.
C5_IssueQueriesRestricted ==
    \A s \in Inv :
        (/\ Truthy(defaultProjectId)
         /\ toolReq[s].tool = "issues"
         /\ toolReq[s].action \in {"query", "search", "count"}) =>
            \A i \in 1..Len(clientCalls[s]) :
                clientCalls[s][i].kind = "query" =>
                    RestrictedTo(clientCalls[s][i].query, defaultProjectId)


(***************************************************************************)
(* Issue creation: the issues/create tool call and the createIssue steps   *)
(***************************************************************************)
\* projectId arguments of issues/create
CreateProjectIds == {NoId, "TEAM", "OTHER", "0-1"}

\* Creation params of issues/create: the spec's Task scenario, an Epic with a
\* parent and a business process, a call with neither type nor team, a Feature
\* with every field, and a call without summary
CreateParamSamples ==
    {[SynthIdle EXCEPT !.type = "Task", !.devTeam = "Backend"],
     [SynthIdle EXCEPT !.type = "Epic", !.parentId = "SC-1", !.sorting = <<5>>,
                       !.businessProc = "Sales"],
     [SynthIdle EXCEPT !.businessProc = "Sales", !.assignee = "jdoe"],
     [SynthIdle EXCEPT !.type = "Feature", !.parentId = "SC-1", !.priority = "Critical",
                       !.sorting = <<5>>, !.devTeam = "Backend", !.assignee = "jdoe",
                       !.businessProc = "Sales"],
     [SynthIdle EXCEPT !.summary = NoId]}

LookupReplies == {"id", "no id", "fail"}
DraftReplies == {"ok", "no id"} \cup ErrorTexts
CommandReplies == {"ok"} \cup ErrorTexts
SubmitReplies == {"idReadable", "id only"} \cup ErrorTexts
BpCommandReplies == {"ok", "fail"}
BpLookupReplies == {"field", "no field", "fail"}
BpSetReplies == {"ok", "fail"}

Sent(i, request) == http' = [http EXCEPT ![i] = Append(@, request)]
Finish(i, r) ==
    /\ response' = [response EXCEPT ![i] = r]
    /\ pc' = [pc EXCEPT ![i] = "done"]

\* issue.idReadable || issue.id
IdReadable(data) == IF Truthy(data.idReadable) THEN data.idReadable ELSE data.id

\* handleIssuesManage, action 'create': validation, then createIssue up to its
\* first request (resolveInternalProjectId's test of the id shape)
CreateCall(i, p, params) ==
    /\ pc[i] = "idle"
    /\ nextDraft < MaxDrafts
    /\ args' = [args EXCEPT ![i] = [projectId |-> p, params |-> params]]
    /\ LET r == Resolve(p)
       IN  IF ~r.ok
           THEN /\ Finish(i, McpErrorThrown("InternalError",
                                            "Tool execution failed: " \o r.error))
                /\ UNCHANGED <<createProjectId, internalProjectId>>
           ELSE IF ~ValidProjectId(r.id)
           THEN /\ Finish(i, McpErrorThrown("InvalidParams",
                                            "Invalid parameter: projectId"))
                /\ UNCHANGED <<createProjectId, internalProjectId>>
           ELSE IF ~Truthy(params.summary)
           THEN /\ Finish(i, McpErrorThrown("InvalidParams",
                                            "Invalid parameter: summary"))
                /\ UNCHANGED <<createProjectId, internalProjectId>>
           ELSE /\ createProjectId' = [createProjectId EXCEPT ![i] = r.id]
                /\ internalProjectId' =
                       [internalProjectId EXCEPT
                           ![i] = IF IsInternalId(r.id) THEN r.id ELSE NoId]
                /\ pc' = [pc EXCEPT ![i] = IF IsInternalId(r.id) THEN "draft"
                                           ELSE "lookup"]
                /\ UNCHANGED response
    /\ UNCHANGED <<draftId, command, issue, http, backendVars>>
    /\ UNCHANGED <<defaultProjectId, stateVars, deleteVars, updateVars, resolveVars, synthVars, scopeVars>>

\* A lookup that is tried a second time after a failure
Lookup_retry(i, reply) ==
    /\ pc[i] = "lookup"
    /\ Sent(i, Http("GET /admin/projects/{id}", createProjectId[i], "", reply))
    /\ internalProjectId' =
           [internalProjectId EXCEPT
               ![i] = IF reply = "id" THEN InternalIdOf(createProjectId[i])
                      ELSE createProjectId[i]]
    /\ pc' = [pc EXCEPT ![i] = IF reply = "fail" /\ http[i] = <<>> THEN "lookup"
                               ELSE "draft"]
    /\ UNCHANGED <<args, createProjectId, draftId, command, issue, response, backendVars>>
    /\ UNCHANGED <<defaultProjectId, stateVars, deleteVars, updateVars, resolveVars, synthVars, scopeVars>>

\* A lookup whose failure reaches the outer catch of createIssue
Lookup_failHard(i, reply) ==
    /\ pc[i] = "lookup"
    /\ Sent(i, Http("GET /admin/projects/{id}", createProjectId[i], "", reply))
    /\ IF reply = "fail"
       THEN /\ Finish(i, CreateIssueCatch("404 Not Found", createProjectId[i],
                                          args[i].params.summary))
            /\ UNCHANGED internalProjectId
       ELSE /\ internalProjectId' =
                   [internalProjectId EXCEPT
                       ![i] = IF reply = "id" THEN InternalIdOf(createProjectId[i])
                              ELSE createProjectId[i]]
            /\ pc' = [pc EXCEPT ![i] = "draft"]
            /\ UNCHANGED response
    /\ UNCHANGED <<args, createProjectId, draftId, command, issue, backendVars>>
    /\ UNCHANGED <<defaultProjectId, stateVars, deleteVars, updateVars, resolveVars, synthVars, scopeVars>>

\* resolveInternalProjectId: GET /admin/projects/{projectId}; a failure or a
\* reply without id falls back to the id as given
Lookup(i, reply) ==
    /\ pc[i] = "lookup"
    /\ Sent(i, Http("GET /admin/projects/{id}", createProjectId[i], "", reply))
    /\ internalProjectId' =
           [internalProjectId EXCEPT
               ![i] = IF reply = "id" THEN InternalIdOf(createProjectId[i])
                      ELSE createProjectId[i]]
    /\ pc' = [pc EXCEPT ![i] = "draft"]
    /\ UNCHANGED <<args, createProjectId, draftId, command, issue, response, backendVars>>
    /\ UNCHANGED <<defaultProjectId, stateVars, deleteVars, updateVars, resolveVars, synthVars, scopeVars>>

\* A draft step that goes on without testing the draft id
Draft_skipIdCheck(i, reply) ==
    /\ pc[i] = "draft"
    /\ Sent(i, Http("POST /users/me/drafts", internalProjectId[i], "", reply))
    /\ IF reply \in {"ok", "no id"}
       THEN /\ nextDraft' = IF reply = "ok" THEN nextDraft + 1 ELSE nextDraft
            /\ drafts' = IF reply = "ok" THEN drafts \cup {DraftIdOf(nextDraft + 1)}
                         ELSE drafts
            /\ draftId' = [draftId EXCEPT ![i] = IF reply = "ok"
                                                 THEN DraftIdOf(nextDraft + 1) ELSE NoId]
            /\ command' = [command EXCEPT
                              ![i] = CommandText(CommandParts(args[i].params))]
            /\ pc' = [pc EXCEPT ![i] = "command"]
            /\ UNCHANGED response
       ELSE /\ Finish(i, CreateIssueCatch(reply, createProjectId[i],
                                          args[i].params.summary))
            /\ UNCHANGED <<nextDraft, drafts, draftId, command>>
    /\ UNCHANGED <<args, createProjectId, internalProjectId, issue, issues>>
    /\ UNCHANGED <<defaultProjectId, stateVars, deleteVars, updateVars, resolveVars, synthVars, scopeVars>>

\* A draft step that keeps the draft id in a field of the client, shared by
\* the invocations in flight
Draft_sharedDraftId(i, reply) ==
    /\ pc[i] = "draft"
    /\ Sent(i, Http("POST /users/me/drafts", internalProjectId[i], "", reply))
    /\ IF reply = "ok"
       THEN /\ nextDraft' = nextDraft + 1
            /\ drafts' = drafts \cup {DraftIdOf(nextDraft + 1)}
            /\ draftId' = [j \in Inv |-> IF j = i \/ pc[j] \in {"command", "submit"}
                                         THEN DraftIdOf(nextDraft + 1) ELSE draftId[j]]
            /\ command' = [command EXCEPT
                              ![i] = CommandText(CommandParts(args[i].params))]
            /\ pc' = [pc EXCEPT ![i] = "command"]
            /\ UNCHANGED response
       ELSE /\ Finish(i, IF reply = "no id"
                         THEN FormatError("Failed to create draft - no ID returned",
                                          NoId, NoId, createProjectId[i],
                                          args[i].params.summary, NoId)
                         ELSE CreateIssueCatch(reply, createProjectId[i],
                                               args[i].params.summary))
            /\ UNCHANGED <<nextDraft, drafts, draftId, command>>
    /\ UNCHANGED <<args, createProjectId, internalProjectId, issue, issues>>
    /\ UNCHANGED <<defaultProjectId, stateVars, deleteVars, updateVars, resolveVars, synthVars, scopeVars>>

\* Step 1: POST /users/me/drafts; with a draft id, step 2 builds the command
Draft(i, reply) ==
    /\ pc[i] = "draft"
    /\ Sent(i, Http("POST /users/me/drafts", internalProjectId[i], "", reply))
    /\ IF reply = "ok"
       THEN /\ nextDraft' = nextDraft + 1
            /\ drafts' = drafts \cup {DraftIdOf(nextDraft + 1)}
            /\ draftId' = [draftId EXCEPT ![i] = DraftIdOf(nextDraft + 1)]
            /\ command' = [command EXCEPT
                              ![i] = CommandText(CommandParts(args[i].params))]
            /\ pc' = [pc EXCEPT ![i] = "command"]
            /\ UNCHANGED response
       ELSE /\ Finish(i, IF reply = "no id"
                         THEN FormatError("Failed to create draft - no ID returned",
                                          NoId, NoId, createProjectId[i],
                                          args[i].params.summary, NoId)
                         ELSE CreateIssueCatch(reply, createProjectId[i],
                                               args[i].params.summary))
            /\ UNCHANGED <<nextDraft, drafts, draftId, command>>
    /\ UNCHANGED <<args, createProjectId, internalProjectId, issue, issues>>
    /\ UNCHANGED <<defaultProjectId, stateVars, deleteVars, updateVars, resolveVars, synthVars, scopeVars>>

\* Step 2: POST /commands with the combined command against the draft; a
\* rejected command ends the workflow with an error response
ApplyFields(i, reply) ==
    /\ pc[i] = "command"
    /\ Sent(i, Http("POST /commands", draftId[i], command[i], reply))
    /\ IF reply = "ok"
       THEN /\ pc' = [pc EXCEPT ![i] = "submit"]
            /\ UNCHANGED response
       ELSE Finish(i, FormatError("Draft created but failed to apply fields: " \o reply,
                                  draftId[i], command[i], createProjectId[i], NoId, NoId))
    /\ UNCHANGED <<args, createProjectId, internalProjectId, draftId, command, issue,
                   backendVars>>
    /\ UNCHANGED <<defaultProjectId, stateVars, deleteVars, updateVars, resolveVars, synthVars, scopeVars>>

\* A submission whose failure does not stop the Business_proc step
Submit_bpAfterFailure(i, reply) ==
    /\ pc[i] = "submit"
    /\ Sent(i, Http("POST /issues?draftId={id}", draftId[i], "", reply))
    /\ IF reply \in ErrorTexts
       THEN /\ IF Truthy(args[i].params.businessProc)
               THEN /\ pc' = [pc EXCEPT ![i] = "bpCommand"]
                    /\ UNCHANGED response
               ELSE Finish(i, CreateIssueCatch(reply, createProjectId[i],
                                               args[i].params.summary))
            /\ issue' = [issue EXCEPT ![i] = [id |-> draftId[i], idReadable |-> NoId]]
            /\ UNCHANGED <<drafts, issues>>
       ELSE LET data == IssueOf(draftId[i], reply = "idReadable")
            IN  /\ issue' = [issue EXCEPT ![i] = data]
                /\ drafts' = drafts \ {draftId[i]}
                /\ issues' = issues \cup {draftId[i]}
                /\ IF Truthy(args[i].params.businessProc) /\ Truthy(IdReadable(data))
                   THEN /\ pc' = [pc EXCEPT ![i] = "bpCommand"]
                        /\ UNCHANGED response
                   ELSE Finish(i, CreatedResponse(data, args[i].params.summary))
    /\ UNCHANGED <<args, createProjectId, internalProjectId, draftId, command, nextDraft>>
    /\ UNCHANGED <<defaultProjectId, stateVars, deleteVars, updateVars, resolveVars, synthVars, scopeVars>>

\* A submission that is tried a second time after a failure
Submit_retry(i, reply) ==
    /\ pc[i] = "submit"
    /\ Sent(i, Http("POST /issues?draftId={id}", draftId[i], "", reply))
    /\ IF reply \in ErrorTexts
       THEN /\ IF \E k \in 1..Len(http[i]) : http[i][k].op = "POST /issues?draftId={id}"
               THEN Finish(i, CreateIssueCatch(reply, createProjectId[i],
                                               args[i].params.summary))
               ELSE UNCHANGED <<pc, response>>
            /\ UNCHANGED <<issue, drafts, issues>>
       ELSE LET data == IssueOf(draftId[i], reply = "idReadable")
            IN  /\ issue' = [issue EXCEPT ![i] = data]
                /\ drafts' = drafts \ {draftId[i]}
                /\ issues' = issues \cup {draftId[i]}
                /\ IF Truthy(args[i].params.businessProc) /\ Truthy(IdReadable(data))
                   THEN /\ pc' = [pc EXCEPT ![i] = "bpCommand"]
                        /\ UNCHANGED response
                   ELSE Finish(i, CreatedResponse(data, args[i].params.summary))
    /\ UNCHANGED <<args, createProjectId, internalProjectId, draftId, command, nextDraft>>
    /\ UNCHANGED <<defaultProjectId, stateVars, deleteVars, updateVars, resolveVars, synthVars, scopeVars>>

\* A submission whose failure is followed by the removal of the draft
Submit_cleanup(i, reply) ==
    /\ pc[i] = "submit"
    /\ IF reply \in ErrorTexts
       THEN /\ http' = [http EXCEPT
                           ![i] = @ \o <<Http("POST /issues?draftId={id}", draftId[i], "",
                                              reply),
                                         Http("DELETE /users/me/drafts/{id}", draftId[i],
                                              "", "ok")>>]
            /\ Finish(i, CreateIssueCatch(reply, createProjectId[i],
                                          args[i].params.summary))
            /\ drafts' = drafts \ {draftId[i]}
            /\ UNCHANGED <<issue, issues>>
       ELSE LET data == IssueOf(draftId[i], reply = "idReadable")
            IN  /\ Sent(i, Http("POST /issues?draftId={id}", draftId[i], "", reply))
                /\ issue' = [issue EXCEPT ![i] = data]
                /\ drafts' = drafts \ {draftId[i]}
                /\ issues' = issues \cup {draftId[i]}
                /\ IF Truthy(args[i].params.businessProc) /\ Truthy(IdReadable(data))
                   THEN /\ pc' = [pc EXCEPT ![i] = "bpCommand"]
                        /\ UNCHANGED response
                   ELSE Finish(i, CreatedResponse(data, args[i].params.summary))
    /\ UNCHANGED <<args, createProjectId, internalProjectId, draftId, command, nextDraft>>
    /\ UNCHANGED <<defaultProjectId, stateVars, deleteVars, updateVars, resolveVars, synthVars, scopeVars>>

\* Step 3: POST /issues?draftId=...; on success the backend turns the draft
\* into an issue, and step 4 follows when a businessProc was given
Submit(i, reply) ==
    /\ pc[i] = "submit"
    /\ Sent(i, Http("POST /issues?draftId={id}", draftId[i], "", reply))
    /\ IF reply \in ErrorTexts
       THEN /\ Finish(i, CreateIssueCatch(reply, createProjectId[i],
                                          args[i].params.summary))
            /\ UNCHANGED <<issue, drafts, issues>>
       ELSE LET data == IssueOf(draftId[i], reply = "idReadable")
            IN  /\ issue' = [issue EXCEPT ![i] = data]
                /\ drafts' = drafts \ {draftId[i]}
                /\ issues' = issues \cup {draftId[i]}
                /\ IF Truthy(args[i].params.businessProc) /\ Truthy(IdReadable(data))
                   THEN /\ pc' = [pc EXCEPT ![i] = "bpCommand"]
                        /\ UNCHANGED response
                   ELSE Finish(i, CreatedResponse(data, args[i].params.summary))
    /\ UNCHANGED <<args, createProjectId, internalProjectId, draftId, command, nextDraft>>
    /\ UNCHANGED <<defaultProjectId, stateVars, deleteVars, updateVars, resolveVars, synthVars, scopeVars>>

\* Step 4: applyCommand(idReadable, `Business_proc ${businessProc}`)
BpCommand(i, reply) ==
    /\ pc[i] = "bpCommand"
    /\ Sent(i, Http("POST /commands", IdReadable(issue[i]),
                    "Business_proc " \o args[i].params.businessProc, reply))
    /\ IF reply = "ok"
       THEN Finish(i, CreatedResponse(issue[i], args[i].params.summary))
       ELSE /\ pc' = [pc EXCEPT ![i] = "bpLookup"]
            /\ UNCHANGED response
    /\ UNCHANGED <<args, createProjectId, internalProjectId, draftId, command, issue,
                   backendVars>>
    /\ UNCHANGED <<defaultProjectId, stateVars, deleteVars, updateVars, resolveVars, synthVars, scopeVars>>

\* A fallback lookup whose failure reaches the outer catch
BpLookup_uncaught(i, reply) ==
    /\ pc[i] = "bpLookup"
    /\ Sent(i, Http("GET /issues/{id}", IdReadable(issue[i]), "", reply))
    /\ IF reply = "field"
       THEN /\ pc' = [pc EXCEPT ![i] = "bpSet"]
            /\ UNCHANGED response
       ELSE IF reply = "fail"
       THEN Finish(i, CreateIssueCatch("500 Internal Server Error", createProjectId[i],
                                       args[i].params.summary))
       ELSE Finish(i, CreatedResponse(issue[i], args[i].params.summary))
    /\ UNCHANGED <<args, createProjectId, internalProjectId, draftId, command, issue,
                   backendVars>>
    /\ UNCHANGED <<defaultProjectId, stateVars, deleteVars, updateVars, resolveVars, synthVars, scopeVars>>

\* Step 4, fallback: GET /issues/{idReadable} for the custom fields, looking
\* for the one named Business_proc
BpLookup(i, reply) ==
    /\ pc[i] = "bpLookup"
    /\ Sent(i, Http("GET /issues/{id}", IdReadable(issue[i]), "", reply))
    /\ IF reply = "field"
       THEN /\ pc' = [pc EXCEPT ![i] = "bpSet"]
            /\ UNCHANGED response
       ELSE Finish(i, CreatedResponse(issue[i], args[i].params.summary))
    /\ UNCHANGED <<args, createProjectId, internalProjectId, draftId, command, issue,
                   backendVars>>
    /\ UNCHANGED <<defaultProjectId, stateVars, deleteVars, updateVars, resolveVars, synthVars, scopeVars>>

\* Step 4, fallback: POST /issues/{idReadable}/customFields/{field}
BpSet(i, reply) ==
    /\ pc[i] = "bpSet"
    /\ Sent(i, Http("POST /issues/{id}/customFields/{field}", IdReadable(issue[i]),
                    args[i].params.businessProc, reply))
    /\ Finish(i, CreatedResponse(issue[i], args[i].params.summary))
    /\ UNCHANGED <<args, createProjectId, internalProjectId, draftId, command, issue,
                   backendVars>>
    /\ UNCHANGED <<defaultProjectId, stateVars, deleteVars, updateVars, resolveVars, synthVars, scopeVars>>

\* The response goes back to the caller and the invocation's locals are gone
Return(i) ==
    /\ pc[i] = "done"
    /\ pc' = [pc EXCEPT ![i] = "idle"]
    /\ args' = [args EXCEPT ![i] = [projectId |-> NoId, params |-> SynthIdle]]
    /\ createProjectId' = [createProjectId EXCEPT ![i] = NoId]
    /\ internalProjectId' = [internalProjectId EXCEPT ![i] = NoId]
    /\ draftId' = [draftId EXCEPT ![i] = NoId]
    /\ command' = [command EXCEPT ![i] = NoId]
    /\ issue' = [issue EXCEPT ![i] = NoIssue]
    /\ http' = [http EXCEPT ![i] = <<>>]
    /\ response' = [response EXCEPT ![i] = NoResponse]
    /\ UNCHANGED backendVars
    /\ UNCHANGED <<defaultProjectId, stateVars, deleteVars, updateVars, resolveVars, synthVars, scopeVars>>

InitCreate ==
    /\ defaultProjectId \in {NoId, "TEAM"}
    /\ rIn = [provided |-> NoId, allowOverride |-> FALSE]
    /\ rOut = ResolvePending
    /\ sIn = SynthIdle
    /\ sOut = SynthPending
    /\ ScopeIdle
    /\ CreateIdle
    /\ UpdateIdle
    /\ StateIdle
    /\ DeleteIdle

\* The server with one create call in flight at a time
NextCreate ==
    \E i \in Inv :
        \/ /\ \A j \in Inv : pc[j] = "idle"
           /\ \E p \in CreateProjectIds, params \in CreateParamSamples :
                CreateCall(i, p, params)
        \/ \E reply \in LookupReplies : Lookup(i, reply)
        \/ \E reply \in DraftReplies : Draft(i, reply)
        \/ \E reply \in CommandReplies : ApplyFields(i, reply)
        \/ \E reply \in SubmitReplies : Submit(i, reply)
        \/ \E reply \in BpCommandReplies : BpCommand(i, reply)
        \/ \E reply \in BpLookupReplies : BpLookup(i, reply)
        \/ \E reply \in BpSetReplies : BpSet(i, reply)
        \/ Return(i)

SpecCreate == InitCreate /\ [][NextCreate]_vars


\* The requests of invocation i with the given path
Requests(i, op) == {k \in 1..Len(http[i]) : http[i][k].op = op}
\* The field command against the draft, and whether the backend rejected it
FieldCommands(i) == {k \in Requests(i, "POST /commands") : http[i][k].target = draftId[i]}
FieldCommandRejected(i) == \E k \in FieldCommands(i) : http[i][k].reply # "ok"
Submissions(i) == Requests(i, "POST /issues?draftId={id}")
\* The Business_proc command against the new issue
BpCommands(i) ==
    {k \in Requests(i, "POST /commands") :
        /\ issue[i] # NoIssue
        /\ http[i][k].target = IdReadable(issue[i])
        /\ http[i][k].query = "Business_proc " \o args[i].params.businessProc}

\* The requests of the Business_proc step
BpRequests(i) ==
    {k \in 1..Len(http[i]) :
        \/ http[i][k].op \in {"GET /issues/{id}", "POST /issues/{id}/customFields/{field}"}
        \/ http[i][k].op = "POST /commands" /\ http[i][k].query # command[i]}
\* The field command requests: the combined command of step 2
CombinedCommands(i) ==
    {k \in Requests(i, "POST /commands") : http[i][k].query = command[i]}

\* C3: without an enforced project id and without a projectId argument,
\* issues/create fails with the missing-project-id error and sends no request;
\* a supplied projectId reaches createIssue unchanged.
C3_MissingProjectIdFailsFirst ==
    \A i \in Inv :
        (pc[i] # "idle" /\ ~Truthy(defaultProjectId)) =>
            /\ ~Truthy(args[i].projectId) =>
                  /\ pc[i] = "done"
                  /\ response[i].status = "thrown"
                  /\ response[i].message = "Tool execution failed: Project ID is required"
                  /\ http[i] = <<>>
                  /\ draftId[i] = NoId
            /\ (Truthy(args[i].projectId) /\ Truthy(args[i].params.summary)) =>
                  createProjectId[i] = args[i].projectId

C3_Witness ==
    \E i \in Inv :
        /\ pc[i] = "done"
        /\ defaultProjectId = NoId
        /\ args[i].projectId = NoId
        /\ args[i].params.summary = "X"
        /\ response[i].status = "thrown"
        /\ http[i] = <<>>

\* C6 as claimed: a rejected field command does not end the workflow, the
\* submission call is still made.
C6_SubmitsAfterRejectedCommand ==
    \A i \in Inv :
        (pc[i] = "done" /\ FieldCommandRejected(i)) =>
            \E k \in FieldCommands(i), m \in Submissions(i) : k < m

\* C7: every finished createIssue that created a draft or an issue names it in
\* its response; after a rejected field command the response also carries the
\* command and the cause.
C7_ResponseNamesWhatWasCreated ==
    \A i \in Inv :
        (pc[i] = "done" /\ draftId[i] # NoId) =>
            /\ issue[i] # NoIssue => response[i].issue = issue[i]
            /\ issue[i] = NoIssue => response[i].draftId = draftId[i]
            /\ FieldCommandRejected(i) => response[i].command = command[i]

\* C8: with a businessProc and a successful submission, the Business_proc
\* command comes first, the custom-field lookup and set follow only a failed
\* command, and createIssue answers 'created successfully' whatever fails.
C8_BusinessProcBestEffort ==
    \A i \in Inv :
        (Truthy(args[i].params.businessProc) /\ issue[i] # NoIssue) =>
            /\ \A k \in Submissions(i) :
                   k < Len(http[i]) => (k + 1) \in BpCommands(i)
            /\ \A k \in Requests(i, "GET /issues/{id}") :
                   (k - 1) \in BpCommands(i) /\ http[i][k - 1].reply = "fail"
            /\ \A k \in Requests(i, "POST /issues/{id}/customFields/{field}") :
                   /\ http[i][k - 1].op = "GET /issues/{id}"
                   /\ http[i][k - 1].reply = "field"
            /\ pc[i] \in {"bpCommand", "bpLookup", "bpSet", "done"}
            /\ pc[i] = "done" =>
                   /\ BpCommands(i) # {}
                   /\ response[i].status = "success"
                   /\ response[i].issue = issue[i]
                   /\ response[i].message =
                          "Issue \"X\" created successfully as " \o IdReadable(issue[i])

C8_Witness ==
    \E i \in Inv :
        /\ pc[i] = "done"
        /\ Truthy(args[i].params.businessProc)
        /\ \E k \in BpCommands(i) : http[i][k].reply = "fail"
        /\ \E k \in Requests(i, "GET /issues/{id}") : http[i][k].reply = "fail"
        /\ response[i].status = "success"

(***************************************************************************)
(* updateIssue, step by step                                               *)
(***************************************************************************)
\* Minute counts given as updates.estimation
EstimationMinutes == {-121, -120, -90, -61, -60, -59, -30, -1, 0, 1, 45, 59, 60, 61, 90, 120, 150}

\* The updates the model draws: every estimation on its own, every combination
\* of a few fields present, empty or absent, and one update of all six command fields
UpdateSamples ==
    {[NoUpdates EXCEPT !.estimation = <<n>>] : n \in EstimationMinutes}
    \cup [summary : {NoId, "", "S"}, description : {NoId, "D"}, state : {NoId, "Open"},
          priority : {NoId, "", "Critical"}, type : {NoId}, assignee : {NoId, "jdoe"},
          subsystem : {NoId}, estimation : {NoNumber, <<0>>, <<90>>},
          tags : {NoTags, <<>>, <<"t1">>}]
    \cup {[NoUpdates EXCEPT !.state = "Open", !.priority = "Blocker", !.type = "Bug",
                            !.assignee = "jdoe", !.subsystem = "UI",
                            !.estimation = <<45>>]}

\* What the backend answers to a command, to a direct write and to the re-fetch
UpdateReplies == {"ok", "400 Bad Request"}
RefetchReplies == {"ok", "no data", "500 Internal Server Error"}

\* The step that follows the tags write, the basic-field write, the for loop
AfterBasic(u) == IF HasTags(u) THEN "tags" ELSE "refetch"
AfterCommands(payload, u) == IF payload # {} THEN "basic" ELSE AfterBasic(u)
AfterCommand(parts, idx, payload, u) ==
    IF idx <= Len(parts) THEN "command" ELSE AfterCommands(payload, u)

UpdSent(request) == updHttp' = Append(updHttp, request)

\* updateIssue is called: the payload and the commands are built
UpdateCall(id, u) ==
    /\ updPc = "idle"
    /\ updIssueId' = id
    /\ updates' = u
    /\ basicFieldPayload' = BasicFieldKeys(u)
    /\ commandParts' = UpdateCommandParts(u)
    /\ cmdIndex' = 1
    /\ commandErrors' = <<>>
    /\ updPc' = AfterCommand(UpdateCommandParts(u), 1, BasicFieldKeys(u), u)
    /\ UNCHANGED <<updHttp, updResponse>>
    /\ UNCHANGED <<defaultProjectId, stateVars, deleteVars, resolveVars, synthVars, scopeVars, createVars>>

\* One turn of the for loop: applyCommand(issueId, cmd) under its own try
UpdApplyCommand_abort(reply) ==
    /\ updPc = "command"
    /\ UpdSent(Http("POST /commands", updIssueId, commandParts[cmdIndex], reply))
    /\ commandErrors' =
        IF reply = "ok" THEN commandErrors
        ELSE Append(commandErrors, commandParts[cmdIndex] \o ": " \o reply)
    /\ cmdIndex' = cmdIndex + 1
    /\ updPc' = IF reply = "ok"
                THEN AfterCommand(commandParts, cmdIndex + 1, basicFieldPayload, updates)
                ELSE "refetch"
    /\ UNCHANGED <<updIssueId, updates, basicFieldPayload, commandParts, updResponse>>
    /\ UNCHANGED <<defaultProjectId, stateVars, deleteVars, resolveVars, synthVars, scopeVars, createVars>>
UpdApplyCommand_unlabelled(reply) ==
    /\ updPc = "command"
    /\ UpdSent(Http("POST /commands", updIssueId, commandParts[cmdIndex], reply))
    /\ commandErrors' =
        IF reply = "ok" THEN commandErrors ELSE Append(commandErrors, reply)
    /\ cmdIndex' = cmdIndex + 1
    /\ updPc' = AfterCommand(commandParts, cmdIndex + 1, basicFieldPayload, updates)
    /\ UNCHANGED <<updIssueId, updates, basicFieldPayload, commandParts, updResponse>>
    /\ UNCHANGED <<defaultProjectId, stateVars, deleteVars, resolveVars, synthVars, scopeVars, createVars>>
UpdApplyCommand(reply) ==
    /\ updPc = "command"
    /\ UpdSent(Http("POST /commands", updIssueId, commandParts[cmdIndex], reply))
    /\ commandErrors' =
        IF reply = "ok" THEN commandErrors
        ELSE Append(commandErrors, commandParts[cmdIndex] \o ": " \o reply)
    /\ cmdIndex' = cmdIndex + 1
    /\ updPc' = AfterCommand(commandParts, cmdIndex + 1, basicFieldPayload, updates)
    /\ UNCHANGED <<updIssueId, updates, basicFieldPayload, commandParts, updResponse>>
    /\ UNCHANGED <<defaultProjectId, stateVars, deleteVars, resolveVars, synthVars, scopeVars, createVars>>

\* The direct write of summary and description
UpdBasicFields(reply) ==
    /\ updPc = "basic"
    /\ UpdSent(Http("POST /issues/{id}", updIssueId, "basic fields", reply))
    /\ commandErrors' =
        IF reply = "ok" THEN commandErrors
        ELSE Append(commandErrors, "Basic fields: " \o reply)
    /\ updPc' = AfterBasic(updates)
    /\ UNCHANGED <<updIssueId, updates, basicFieldPayload, commandParts, cmdIndex,
                   updResponse>>
    /\ UNCHANGED <<defaultProjectId, stateVars, deleteVars, resolveVars, synthVars, scopeVars, createVars>>

\* The direct write of the tags
UpdTags_uncaught(reply) ==
    /\ updPc = "tags"
    /\ UpdSent(Http("POST /issues/{id}", updIssueId, "tags", reply))
    /\ IF reply = "ok"
       THEN /\ updPc' = "refetch"
            /\ UNCHANGED updResponse
       ELSE /\ updPc' = "done"
            /\ updResponse' = [NoUpdateResponse EXCEPT !.status = "thrown",
                                                       !.message = reply]
    /\ UNCHANGED <<updIssueId, updates, basicFieldPayload, commandParts, cmdIndex,
                   commandErrors>>
    /\ UNCHANGED <<defaultProjectId, stateVars, deleteVars, resolveVars, synthVars, scopeVars, createVars>>
UpdTags(reply) ==
    /\ updPc = "tags"
    /\ UpdSent(Http("POST /issues/{id}", updIssueId, "tags", reply))
    /\ commandErrors' =
        IF reply = "ok" THEN commandErrors ELSE Append(commandErrors, "Tags: " \o reply)
    /\ updPc' = "refetch"
    /\ UNCHANGED <<updIssueId, updates, basicFieldPayload, commandParts, cmdIndex,
                   updResponse>>
    /\ UNCHANGED <<defaultProjectId, stateVars, deleteVars, resolveVars, synthVars, scopeVars, createVars>>

\* The re-fetch, then the response: updatedIssue || { id: issueId }
UpdRefetch(reply) ==
    /\ updPc = "refetch"
    /\ UpdSent(Http("GET /issues/{id}", updIssueId, "", reply))
    /\ updResponse' =
        FormatUpdated(IF reply = "ok"
                      THEN [id |-> "2-" \o updIssueId, idReadable |-> updIssueId]
                      ELSE [id |-> updIssueId, idReadable |-> NoId],
                      "Issue " \o updIssueId \o " updated"
                          \o (IF Len(commandErrors) # 0 THEN " with partial errors"
                              ELSE " successfully"),
                      Len(commandParts), commandErrors)
    /\ updPc' = "done"
    /\ UNCHANGED <<updIssueId, updates, basicFieldPayload, commandParts, cmdIndex,
                   commandErrors>>
    /\ UNCHANGED <<defaultProjectId, stateVars, deleteVars, resolveVars, synthVars, scopeVars, createVars>>

\* The caller has the response; the next call starts afresh
UpdReturn ==
    /\ updPc = "done"
    /\ updPc' = "idle"
    /\ updIssueId' = NoId
    /\ updates' = NoUpdates
    /\ basicFieldPayload' = {}
    /\ commandParts' = <<>>
    /\ cmdIndex' = 1
    /\ commandErrors' = <<>>
    /\ updHttp' = <<>>
    /\ updResponse' = NoUpdateResponse
    /\ UNCHANGED <<defaultProjectId, stateVars, deleteVars, resolveVars, synthVars, scopeVars, createVars>>

InitUpdate ==
    /\ defaultProjectId \in {NoId, "TEAM"}
    /\ rIn = [provided |-> NoId, allowOverride |-> FALSE]
    /\ rOut = ResolvePending
    /\ sIn = SynthIdle
    /\ sOut = SynthPending
    /\ ScopeIdle
    /\ CreateIdle
    /\ UpdateIdle
    /\ StateIdle
    /\ DeleteIdle

NextUpdate ==
    \/ \E u \in UpdateSamples : UpdateCall("SC-1", u)
    \/ \E reply \in UpdateReplies : UpdApplyCommand(reply)
    \/ \E reply \in UpdateReplies : UpdBasicFields(reply)
    \/ \E reply \in UpdateReplies : UpdTags(reply)
    \/ \E reply \in RefetchReplies : UpdRefetch(reply)
    \/ UpdReturn

SpecUpdate == InitUpdate /\ [][NextUpdate]_vars

\* The requests of the updateIssue call, by kind
UpdCommandRequests == SelectSeq(updHttp, LAMBDA r : r.op = "POST /commands")
UpdWriteRequests(what) ==
    SelectSeq(updHttp, LAMBDA r : r.op = "POST /issues/{id}" /\ r.query = what)
UpdFailedRequests ==
    SelectSeq(updHttp, LAMBDA r : r.op # "GET /issues/{id}" /\ r.reply # "ok")
UpdFailedCommands == SelectSeq(UpdCommandRequests, LAMBDA r : r.reply # "ok")

\* Duration tokens an estimation command can hold
HourTokens == {ToString(k) \o "h" : k \in -3..3}
MinuteTokens == {ToString(k) \o "m" : k \in -59..59}

\* C11: the estimation command is 'Estimation ' followed by an 'h' token only
\* if floor(n/60) > 0 and an 'm' token only if n mod 60 > 0, and is
\* 'Estimation 0m' when both are zero.
C11_EstimationTokens ==
    (updPc # "idle" /\ updates.estimation # NoNumber) =>
        LET n == updates.estimation[1]
            text == commandParts[Len(commandParts)]
        IN  /\ \E hs \in {<<>>} \cup {<<t>> : t \in HourTokens},
                  ms \in {<<>>} \cup {<<t>> : t \in MinuteTokens} :
                  /\ text = "Estimation "
                              \o (IF hs \o ms = <<>> THEN "0m" ELSE JoinSpace(hs \o ms))
                  /\ hs # <<>> => n \div 60 > 0
                  /\ ms # <<>> => n % 60 > 0
            /\ (n \div 60 = 0 /\ n % 60 = 0) => text = "Estimation 0m"

\* C12: every synthesized command is sent exactly once, in synthesis order, as
\* its own request, whatever failed before it; the summary/description write
\* and the tags write are each made when their fields are supplied; and
\* appliedCommands is the number of synthesized commands.
C12_EveryCommandSentOnce ==
    updPc = "done" =>
        /\ [k \in 1..Len(UpdCommandRequests) |-> UpdCommandRequests[k].query]
              = UpdateCommandParts(updates)
        /\ Len(UpdWriteRequests("basic fields"))
              = (IF Truthy(updates.summary) \/ Truthy(updates.description) THEN 1 ELSE 0)
        /\ Len(UpdWriteRequests("tags")) = (IF HasTags(updates) THEN 1 ELSE 0)
        /\ updResponse.appliedCommands = Len(UpdateCommandParts(updates))

C12_Witness ==
    /\ updPc = "done"
    /\ Len(UpdCommandRequests) = 3
    /\ UpdCommandRequests[1].reply # "ok"
    /\ UpdCommandRequests[2].reply # "ok"
    /\ UpdCommandRequests[3].reply = "ok"
    /\ Len(UpdWriteRequests("basic fields")) = 1
    /\ Len(UpdWriteRequests("tags")) = 1
    /\ updResponse.appliedCommands = 3

\* C13 as claimed: every entry of commandErrors is '<command>: <message>' for a
\* synthesized command that failed, in the order of the attempts, so there are
\* never more reported errors than appliedCommands.
C13_OnlyCommandErrors ==
    updPc = "done" =>
        /\ updResponse.commandErrors
              = [k \in 1..Len(UpdFailedCommands) |->
                    UpdFailedCommands[k].query \o ": " \o UpdFailedCommands[k].reply]
        /\ updResponse.commandErrorsCount <= updResponse.appliedCommands

\* The commandErrors entry of a failed command or direct write
ErrorEntry(r) ==
    IF r.op = "POST /commands" THEN r.query \o ": " \o r.reply
    ELSE IF r.query = "basic fields" THEN "Basic fields: " \o r.reply
    ELSE "Tags: " \o r.reply

\* C13, amended: commandErrors holds, in the order of the attempts, one
\* '<command>: <message>' entry per failed command, then 'Basic fields:
\* <message>' if the summary/description write failed, then 'Tags: <message>'
\* if the tags write failed; there are at most appliedCommands + 2 of them.
C13_ErrorsInAttemptOrder ==
    updPc = "done" =>
        /\ updResponse.commandErrors
              = [k \in 1..Len(UpdFailedRequests) |-> ErrorEntry(UpdFailedRequests[k])]
        /\ updResponse.commandErrorsCount = Len(updResponse.commandErrors)
        /\ updResponse.commandErrorsCount <= updResponse.appliedCommands + 2

C13_Witness ==
    /\ updPc = "done"
    /\ updResponse.commandErrors
          = <<"State: Open: 400 Bad Request", "Basic fields: 400 Bad Request",
              "Tags: 400 Bad Request">>
    /\ updResponse.appliedCommands = 2

\* C14: updateIssue never throws: whatever command, write or re-fetch fails, it
\* returns the 'updated' envelope, the failures are in its metadata only, and
\* the message ends 'with partial errors' exactly when an error was recorded.
C14_UpdateNeverThrows ==
    /\ updResponse.status # "thrown"
    /\ updPc = "done" =>
        /\ updResponse.status = "updated"
        /\ updResponse.commandErrorsCount = Len(UpdFailedRequests)
        /\ updResponse.message =
              "Issue " \o updIssueId \o " updated"
                  \o (IF updResponse.commandErrorsCount > 0 THEN " with partial errors"
                      ELSE " successfully")

C14_Witness ==
    /\ updPc = "done"
    /\ updResponse.status = "updated"
    /\ Len(updHttp) = 4
    /\ \A k \in 1..4 : updHttp[k].reply # "ok"
    /\ updHttp[3].query = "tags"
    /\ updResponse.message = "Issue SC-1 updated with partial errors"

\* C19: within one createIssue invocation the draft is created before the field
\* command is sent, the field command succeeds before the submission, and a
\* Business_proc request follows a successful submission; field command and
\* submission always carry the draft id this invocation obtained.
C19_StepsInOrder ==
    \A i \in Inv :
        /\ \A k \in CombinedCommands(i) \cup Submissions(i) :
              /\ \E d \in Requests(i, "POST /users/me/drafts") :
                    d < k /\ http[i][d].reply = "ok"
              /\ Truthy(draftId[i])
              /\ http[i][k].target = draftId[i]
        /\ \A s \in Submissions(i) :
              \E k \in CombinedCommands(i) : k < s /\ http[i][k].reply = "ok"
        /\ \A b \in BpRequests(i) :
              \E s \in Submissions(i) : s < b /\ http[i][s].reply \notin ErrorTexts

C19_Witness ==
    \E i \in Inv :
        /\ pc[i] = "done"
        /\ Len(http[i]) = 4
        /\ http[i][1].op = "POST /users/me/drafts"
        /\ http[i][2].op = "POST /commands"
        /\ http[i][3].op = "POST /issues?draftId={id}"
        /\ http[i][4].op = "POST /commands"
        /\ http[i][4].query = "Business_proc Sales"
        /\ response[i].status = "success"

\* C20: when the draft-creation call returns no draft id, createIssue ends with
\* the 'Failed to create draft' error response and sends nothing more.
C20_NoDraftIdEndsWorkflow ==
    \A i \in Inv :
        \A d \in Requests(i, "POST /users/me/drafts") :
            http[i][d].reply = "no id" =>
                /\ d = Len(http[i])
                /\ pc[i] = "done"
                /\ response[i].status = "error"
                /\ response[i].message = "Failed to create draft - no ID returned"
                /\ draftId[i] = NoId
                /\ CombinedCommands(i) \cup Submissions(i) \cup BpRequests(i) = {}

C20_Witness ==
    \E i \in Inv :
        /\ pc[i] = "done"
        /\ http[i] # <<>>
        /\ http[i][Len(http[i])].op = "POST /users/me/drafts"
        /\ http[i][Len(http[i])].reply = "no id"
        /\ response[i].message = "Failed to create draft - no ID returned"

(***************************************************************************)
(* Concurrent createIssue invocations                                      *)
(***************************************************************************)
\* The calls the concurrent server takes: two projects (one given by its
\* internal id, so without lookup) and creation params that take every step
ConcurrentProjectIds == {"TEAM", "0-1"}
ConcurrentParams ==
    {[SynthIdle EXCEPT !.type = "Task", !.devTeam = "Backend", !.businessProc = "Sales"]}

InitConcurrent ==
    /\ defaultProjectId = NoId
    /\ rIn = [provided |-> NoId, allowOverride |-> FALSE]
    /\ rOut = ResolvePending
    /\ sIn = SynthIdle
    /\ sOut = SynthPending
    /\ ScopeIdle
    /\ CreateIdle
    /\ UpdateIdle
    /\ StateIdle
    /\ DeleteIdle

\* Every await of an invocation is a point where another invocation can run
NextConcurrent ==
    \E i \in Inv :
        \/ \E p \in ConcurrentProjectIds, params \in ConcurrentParams :
                CreateCall(i, p, params)
        \/ \E reply \in {"id"} : Lookup(i, reply)
        \/ \E reply \in {"ok", "no id"} : Draft(i, reply)
        \/ \E reply \in {"ok", "403 Forbidden"} : ApplyFields(i, reply)
        \/ \E reply \in {"idReadable", "404 Not Found"} : Submit(i, reply)
        \/ \E reply \in BpCommandReplies : BpCommand(i, reply)
        \/ \E reply \in {"field", "fail"} : BpLookup(i, reply)
        \/ \E reply \in BpSetReplies : BpSet(i, reply)
        \/ Return(i)

SpecConcurrent == InitConcurrent /\ [][NextConcurrent]_vars

\* The locals of one invocation
Locals(i) ==
    <<pc[i], args[i], createProjectId[i], internalProjectId[i], draftId[i], command[i],
      issue[i], http[i], response[i]>>

\* Each invocation's field command and submission carry its own draft id, and
\* no two invocations in flight hold the same draft
OwnDraftOnly ==
    \A i \in Inv :
        /\ \A k \in CombinedCommands(i) \cup Submissions(i) :
              /\ Truthy(draftId[i])
              /\ http[i][k].target = draftId[i]
        /\ \A j \in Inv \ {i} : Truthy(draftId[i]) => draftId[j] # draftId[i]

\* A step of one invocation leaves the locals of every other invocation and the
\* scope configuration as they were
StepIsLocal ==
    /\ defaultProjectId' = defaultProjectId
    /\ \E i \in Inv : \A j \in Inv \ {i} : Locals(j)' = Locals(j)

\* C18: in every interleaving of concurrent createIssue invocations each one's
\* field command and submission reference only the draft id returned to it, no
\* invocation touches another's state, and the scope configuration, the only
\* state they share, is never modified.
C18_InvocationsIndependent == []OwnDraftOnly /\ [][StepIsLocal]_vars

C18_Witness ==
    /\ pc[1] = "submit"
    /\ pc[2] = "submit"
    /\ draftId[1] = "draft-2"
    /\ draftId[2] = "draft-1"
    /\ createProjectId[1] = createProjectId[2]


(***************************************************************************)
(* The draft command of createIssue                                        *)
(***************************************************************************)
\* The clauses a draft command can hold, in their order
ClauseOrder == <<"subtask of", "Type:", "Priority:", "Sorting:", "Dev_Team:", "Assignee:">>

\* The value the k-th clause carries for the given creation params
ClauseValue(params, k) ==
    CASE k = 1 -> params.parentId
      [] k = 2 -> params.type
      [] k = 3 -> IF params.priority \in {NoId, ""} THEN "Normal" ELSE params.priority
      [] k = 4 -> IF params.sorting = <<>> THEN "0" ELSE ToString(params.sorting[1])
      [] k = 5 -> params.devTeam
      [] k = 6 -> params.assignee

\* The command texts made of clauses of ClauseOrder, each at most once, in order
OrderedCommands(params) ==
    {LET sel == SelectSeq(<<1, 2, 3, 4, 5, 6>>, LAMBDA k : k \in S)
     IN  JoinSpace([j \in 1..Len(sel) |->
                       ClauseOrder[sel[j]] \o " " \o ClauseValue(params, sel[j])]) :
        S \in SUBSET {k \in 1..6 : ClauseValue(params, k) \notin {NoId, ""}}}

\* C21: createIssue sends the creation fields as one combined command against
\* the draft; its clauses are in the order subtask of, Type, Priority, Sorting,
\* Dev_Team, Assignee, each at most once; it never holds a Business_proc clause;
\* and type Task with devTeam Backend and nothing else gives
\* 'Type: Task Priority: Normal Dev_Team: Backend'.
C21_OneOrderedCommand ==
    \A i \in Inv :
        /\ Cardinality(FieldCommands(i)) <= 1
        /\ pc[i] \in {"submit", "bpCommand", "bpLookup", "bpSet"} =>
               Cardinality(FieldCommands(i)) = 1
        /\ \A k \in FieldCommands(i) :
               /\ http[i][k].query \in OrderedCommands(args[i].params)
               /\ http[i][k].query = command[i]
               /\ args[i].params = [SynthIdle EXCEPT !.type = "Task", !.devTeam = "Backend"]
                      => http[i][k].query = "Type: Task Priority: Normal Dev_Team: Backend"
        /\ \A k \in Requests(i, "POST /commands") :
               http[i][k].query = "Business_proc " \o args[i].params.businessProc
                   => http[i][k].target # draftId[i]

C21_Witness ==
    \E i \in Inv :
        /\ Truthy(args[i].params.businessProc)
        /\ \E k \in FieldCommands(i) :
               http[i][k].query
                   = "subtask of SC-1 Type: Feature Priority: Critical Sorting: 5 Dev_Team: Backend Assignee: jdoe"
        /\ BpCommands(i) # {}

\* C22: for every creation parameter set the draft command holds exactly one
\* Priority: clause, with the caller's priority when one is supplied and
\* Normal otherwise.
C22_OnePriorityClause ==
    sOut.done =>
        /\ Cardinality(PartsFor(sOut.parts, "Priority:")) = 1
        /\ \A i \in PartsFor(sOut.parts, "Priority:") :
               sOut.parts[i].val
                   = (IF sIn.priority \in {NoId, ""} THEN "Normal" ELSE sIn.priority)

C22_Witness ==
    /\ sOut.done
    /\ sIn.priority = NoId
    /\ sIn.type = "Task"
    /\ sIn.devTeam = "Backend"
    /\ sOut.command = "Type: Task Priority: Normal Dev_Team: Backend"


(***************************************************************************)
(* The commands of updateIssue                                             *)
(***************************************************************************)
\* The fields updateIssue turns into '<Label>: <value>' commands, in order
UpdateFieldOrder == <<"state", "priority", "type", "assignee", "subsystem">>
UpdateFieldLabel == <<"State: ", "Priority: ", "Type: ", "Assignee: ", "Subsystem: ">>

\* The supplied fields among them, in order
SuppliedFields(u) ==
    SelectSeq(<<1, 2, 3, 4, 5>>, LAMBDA k : u[UpdateFieldOrder[k]] \notin {NoId, ""})

\* C23: updateIssue generates a command for a field only if the update supplies
\* it, with no defaults: the commands are those of the supplied fields among
\* State, Priority, Type, Assignee, Subsystem, Estimation, in that order; and an
\* update with none of them and no summary, description or tags sends nothing
\* but the re-fetch.
C23_OnlySuppliedFields ==
    updPc # "idle" =>
        LET sel == SuppliedFields(updates)
            withEstimation == IF updates.estimation # NoNumber THEN 1 ELSE 0
        IN  /\ Len(commandParts) = Len(sel) + withEstimation
            /\ \A j \in 1..Len(sel) :
                   commandParts[j]
                       = UpdateFieldLabel[sel[j]] \o updates[UpdateFieldOrder[sel[j]]]
            /\ withEstimation = 1 =>
                   commandParts[Len(commandParts)]
                       = EstimationCommand(updates.estimation[1])
            /\ \A k \in 1..Len(updHttp) :
                   updHttp[k].op = "POST /commands" => updHttp[k].query = commandParts[k]
            /\ ( /\ sel = <<>>
                 /\ withEstimation = 0
                 /\ updates.summary \in {NoId, ""}
                 /\ updates.description \in {NoId, ""}
                 /\ updates.tags \in {NoTags, <<>>} ) =>
                   \A k \in 1..Len(updHttp) : updHttp[k].op = "GET /issues/{id}"

C23_Witness ==
    /\ updPc = "done"
    /\ updates.priority = NoId
    /\ updates.state = "Open"
    /\ updates.estimation = <<90>>
    /\ commandParts = <<"State: Open", "Estimation 1h 30m">>
    /\ Len(UpdCommandRequests) = 2


(***************************************************************************)
(* changeIssueState, step by step                                          *)
(***************************************************************************)
StSent(request) == stHttp' = Append(stHttp, request)

\* changeIssueState(issueId, newState, comment, resolution) is called
StateCall(id, newState, comment, resolution) ==
    /\ stPc = "idle"
    /\ stIssueId' = id
    /\ stNewState' = newState
    /\ stComment' = comment
    /\ stResolution' = resolution
    /\ stPc' = "command"
    /\ UNCHANGED <<stHttp, stResponse>>
    /\ UNCHANGED <<defaultProjectId, resolveVars, synthVars, scopeVars, createVars,
                   updateVars, deleteVars>>

\* completeIssue(issueId, comment)
CompleteIssue(id, comment) == StateCall(id, "Fixed", comment, "Fixed")
\* startWorkingOnIssue(issueId, comment)
StartWorkingOnIssue(id, comment) == StateCall(id, "In Progress", comment, NoId)

\* ResponseFormatter.formatUpdated({ id: issueId }, 'Issue', { state, resolution },
\* `Issue ${issueId} moved to ${newState}${resolution ? ' (' + resolution + ')' : ''}`)
StateChanged(id, newState, resolution) ==
    [status |-> "updated", data |-> [id |-> id, idReadable |-> NoId],
     message |-> "Issue " \o id \o " moved to " \o newState
                 \o (IF Truthy(resolution) THEN " (" \o resolution \o ")" ELSE ""),
     updates |-> [state |-> newState, resolution |-> resolution]]

\* applyCommand(issueId, `State: ${newState}`); a failure reaches the outer catch
StApplyCommand(reply) ==
    /\ stPc = "command"
    /\ StSent(Http("POST /commands", stIssueId, "State: " \o stNewState, reply))
    /\ IF reply # "ok"
       THEN /\ stPc' = "done"
            /\ stResponse' = [NoStateResponse EXCEPT !.status = "error", !.message = reply]
       ELSE IF Truthy(stComment)
       THEN /\ stPc' = "comment"
            /\ UNCHANGED stResponse
       ELSE /\ stPc' = "done"
            /\ stResponse' = StateChanged(stIssueId, stNewState, stResolution)
    /\ UNCHANGED <<stIssueId, stNewState, stComment, stResolution>>
    /\ UNCHANGED <<defaultProjectId, resolveVars, synthVars, scopeVars, createVars,
                   updateVars, deleteVars>>

\* addComment(issueId, comment) under its own try: a failure is logged only
StAddComment(reply) ==
    /\ stPc = "comment"
    /\ StSent(Http("POST /issues/{id}/comments", stIssueId, stComment, reply))
    /\ stPc' = "done"
    /\ stResponse' = StateChanged(stIssueId, stNewState, stResolution)
    /\ UNCHANGED <<stIssueId, stNewState, stComment, stResolution>>
    /\ UNCHANGED <<defaultProjectId, resolveVars, synthVars, scopeVars, createVars,
                   updateVars, deleteVars>>

\* The caller has the response
StReturn ==
    /\ stPc = "done"
    /\ stPc' = "idle"
    /\ stIssueId' = NoId
    /\ stNewState' = NoId
    /\ stComment' = NoId
    /\ stResolution' = NoId
    /\ stHttp' = <<>>
    /\ stResponse' = NoStateResponse
    /\ UNCHANGED <<defaultProjectId, resolveVars, synthVars, scopeVars, createVars,
                   updateVars, deleteVars>>

(***************************************************************************)
(* deleteIssue                                                             *)
(***************************************************************************)
\* deleteIssue(issueId) is called
DeleteCall(id) ==
    /\ delPc = "idle"
    /\ delIssueId' = id
    /\ delPc' = "request"
    /\ UNCHANGED <<delHttp, delResponse>>
    /\ UNCHANGED <<defaultProjectId, resolveVars, synthVars, scopeVars, createVars,
                   updateVars, stateVars>>

\* await this.delete(`/issues/${issueId}`): the backend drops the issue and
\* formatDeleted is returned; there is no catch, so a failure is thrown on
DeleteRequest(reply) ==
    /\ delPc = "request"
    /\ delHttp' = Append(delHttp, Http("DELETE /issues/{id}", delIssueId, "", reply))
    /\ delPc' = "done"
    /\ IF reply = "ok"
       THEN /\ issues' = issues \ {delIssueId}
            /\ delResponse' = [status |-> "deleted", id |-> delIssueId, message |-> ""]
       ELSE /\ UNCHANGED issues
            /\ delResponse' = [NoDeleteResponse EXCEPT !.status = "thrown",
                                                       !.message = reply]
    /\ UNCHANGED delIssueId
    /\ UNCHANGED <<defaultProjectId, resolveVars, synthVars, scopeVars, invocationVars,
                   drafts, nextDraft, updateVars, stateVars>>

\* The caller has the response
DeleteReturn ==
    /\ delPc = "done"
    /\ delPc' = "idle"
    /\ delIssueId' = NoId
    /\ delHttp' = <<>>
    /\ delResponse' = NoDeleteResponse
    /\ UNCHANGED <<defaultProjectId, resolveVars, synthVars, scopeVars, createVars,
                   updateVars, stateVars>>

(***************************************************************************)
(* The issue mutations: a creation, an update, a state change and a        *)
(* deletion can be in flight together, their requests reaching the backend *)
(* in any order                                                            *)
(***************************************************************************)
\* The updates drawn here: every command field with summary, description and
\* tags; a state change with a summary; and an update of nothing
MutateUpdates ==
    {[NoUpdates EXCEPT !.state = "Open", !.priority = "Blocker", !.type = "Bug",
                       !.assignee = "jdoe", !.subsystem = "UI", !.estimation = <<45>>,
                       !.summary = "S", !.description = "D", !.tags = <<"t1">>],
     [NoUpdates EXCEPT !.state = "Open", !.summary = "S"],
     NoUpdates}

NoCallInProgress ==
    /\ \A j \in Inv : pc[j] = "idle"
    /\ updPc = "idle"
    /\ stPc = "idle"
    /\ delPc = "idle"

\* The calls whose overlap with each other is explored: one creation, one
\* update, completeIssue and the deletions; creations that overlap each other
\* are the subject of SpecConcurrent, so here one creation is in flight at a time
OverlapCreateArgs ==
    [projectId |-> "0-1", params |-> [SynthIdle EXCEPT !.type = "Task",
                                                        !.devTeam = "Backend"]]
OverlapUpdates == [NoUpdates EXCEPT !.state = "Open"]
OverlapOnly ==
    /\ \A j \in Inv : pc[j] # "idle" => args[j] = OverlapCreateArgs
    /\ updPc # "idle" => updates = OverlapUpdates
    /\ stPc # "idle" => /\ stComment = NoId
                        /\ stResolution = "Fixed"

InitMutate == InitCreate

NextMutate ==
    \/ /\ NoCallInProgress
       /\ \E p \in CreateProjectIds, params \in CreateParamSamples :
            CreateCall(1, p, params)
    \/ /\ NoCallInProgress
       /\ \E u \in MutateUpdates : UpdateCall("SC-1", u)
    \/ /\ NoCallInProgress
       /\ \E c \in {NoId, "done"} : StateCall("SC-1", "Fixed", c, NoId)
    \/ /\ NoCallInProgress
       /\ \E c \in {NoId, "done"} : CompleteIssue("SC-1", c)
    \/ /\ NoCallInProgress
       /\ \E c \in {NoId, "done"} : StartWorkingOnIssue("SC-1", c)
    \/ /\ NoCallInProgress \/ OverlapOnly
       /\ \E id \in issues \cup {"SC-1"} : DeleteCall(id)
    \/ /\ ~NoCallInProgress
       /\ OverlapOnly
       /\ \/ /\ \A j \in Inv : pc[j] = "idle"
             /\ CreateCall(1, OverlapCreateArgs.projectId, OverlapCreateArgs.params)
          \/ UpdateCall("SC-1", OverlapUpdates)
          \/ CompleteIssue("SC-1", NoId)
    \/ \E i \in Inv, reply \in LookupReplies : Lookup(i, reply)
    \/ \E i \in Inv, reply \in DraftReplies : Draft(i, reply)
    \/ \E i \in Inv, reply \in CommandReplies : ApplyFields(i, reply)
    \/ \E i \in Inv, reply \in SubmitReplies : Submit(i, reply)
    \/ \E i \in Inv, reply \in BpCommandReplies : BpCommand(i, reply)
    \/ \E i \in Inv, reply \in BpLookupReplies : BpLookup(i, reply)
    \/ \E i \in Inv, reply \in BpSetReplies : BpSet(i, reply)
    \/ \E i \in Inv : Return(i)
    \/ \E reply \in UpdateReplies : UpdApplyCommand(reply)
    \/ \E reply \in UpdateReplies : UpdBasicFields(reply)
    \/ \E reply \in UpdateReplies : UpdTags(reply)
    \/ \E reply \in RefetchReplies : UpdRefetch(reply)
    \/ UpdReturn
    \/ \E reply \in UpdateReplies : StApplyCommand(reply)
    \/ \E reply \in UpdateReplies : StAddComment(reply)
    \/ StReturn
    \/ \E reply \in BackendReplies : DeleteRequest(reply)
    \/ DeleteReturn

SpecMutate == InitMutate /\ [][NextMutate]_vars


\* No two requests of a call are the same request
NoRepeat(h) ==
    \A k, m \in 1..Len(h) :
        k < m => <<h[k].op, h[k].target, h[k].query>> # <<h[m].op, h[m].target, h[m].query>>

\* C24: no step is retried: one createIssue invocation sends the draft creation,
\* the draft field command and the submission at most once each, a failed one
\* being its last request; one updateIssue invocation sends each synthesized
\* command at most once, failed or not.
C24_NoRetries ==
    /\ \A i \in Inv :
          /\ NoRepeat(http[i])
          /\ Cardinality(Requests(i, "POST /users/me/drafts")) <= 1
          /\ Cardinality(CombinedCommands(i)) <= 1
          /\ Cardinality(Submissions(i)) <= 1
          /\ \A k \in Requests(i, "POST /users/me/drafts") \cup CombinedCommands(i)
                       \cup Submissions(i) :
                 http[i][k].reply \in ErrorTexts \cup {"no id"} => k = Len(http[i])
    /\ NoRepeat(updHttp)
    /\ Len(UpdCommandRequests) <= Len(commandParts)
    /\ \A k \in 1..Len(UpdCommandRequests) : UpdCommandRequests[k].query = commandParts[k]

C24_Witness ==
    \E i \in Inv :
        /\ pc[i] = "done"
        /\ Len(http[i]) = 4
        /\ http[i][1].reply = "fail"
        /\ http[i][4].op = "POST /issues?draftId={id}"
        /\ http[i][4].reply = "500 Internal Server Error"
        /\ response[i].status = "error"

\* The project lookups of invocation i
LookupRequests(i) == Requests(i, "GET /admin/projects/{id}")

\* C25: project-id resolution never fails createIssue: a digits-digits id is
\* used unchanged with no lookup; any other id triggers exactly one lookup,
\* whose internal id is used when it returns one and the original string
\* otherwise; the draft creation is attempted in every case.
C25_ProjectResolutionNeverFails ==
    \A i \in Inv :
        createProjectId[i] # NoId =>
            /\ createProjectId[i] = "0-1" =>
                   /\ LookupRequests(i) = {}
                   /\ internalProjectId[i] = "0-1"
            /\ createProjectId[i] \in {"TEAM", "OTHER"} =>
                   /\ pc[i] = "lookup" => http[i] = <<>>
                   /\ pc[i] # "lookup" =>
                          /\ LookupRequests(i) = {1}
                          /\ http[i][1].target = createProjectId[i]
                          /\ internalProjectId[i]
                                 = (IF http[i][1].reply = "id" THEN "77-1072"
                                    ELSE createProjectId[i])
            /\ pc[i] \in {"lookup", "draft"}
                   \/ \E d \in Requests(i, "POST /users/me/drafts") :
                          /\ http[i][d].target = internalProjectId[i]
                          /\ d = Cardinality(LookupRequests(i)) + 1

C25_Witness ==
    \E i \in Inv :
        /\ pc[i] = "done"
        /\ Len(http[i]) >= 2
        /\ http[i][1].op = "GET /admin/projects/{id}"
        /\ http[i][1].reply = "fail"
        /\ http[i][2].op = "POST /users/me/drafts"
        /\ http[i][2].target = "TEAM"
        /\ response[i].status = "success"

\* The last request of a call is a re-fetch of the issue
Refetched(h) ==
    /\ h # <<>>
    /\ h[Len(h)].op = "GET /issues/{id}"
    /\ h[Len(h)].reply \in RefetchReplies

\* C26: after every issue mutation (createIssue, updateIssue, changeIssueState)
\* the issue is re-fetched after the last mutating call, and the response
\* reports the re-fetched state.
C26_RefetchedAfterMutation ==
    /\ \A i \in Inv :
          (pc[i] = "done" /\ response[i].status = "success") => Refetched(http[i])
    /\ updPc = "done" =>
          /\ Refetched(updHttp)
          /\ updHttp[Len(updHttp)].reply = "ok" =>
                 updResponse.data = [id |-> "2-" \o updIssueId, idReadable |-> updIssueId]
    /\ (stPc = "done" /\ stResponse.status = "updated") => Refetched(stHttp)

\* The message of the not-found branch of createIssue's outer catch
ProjectNotFound(pid) == "Project " \o pid \o " not found. Please check the project ID."

\* C27: a createIssue failure raised by a backend call is reported as not-found,
\* permission-denied, network-unreachable or generic-failure according to its
\* cause: 'Project not found' is reported only when the project does not
\* exist, never after the project lookup returned it or a draft was created.
C27_NotFoundOnlyForMissingProject ==
    \A i \in Inv :
        (pc[i] = "done" /\ response[i].status = "error") =>
            /\ response[i].message \in
                   {ProjectNotFound(createProjectId[i]),
                    "You don't have permission to create issues in project "
                        \o createProjectId[i] \o ".",
                    "Network error connecting to YouTrack. Check VPN/network connectivity.",
                    "500 Internal Server Error",
                    "Failed to create draft - no ID returned"}
                   \cup {"Draft created but failed to apply fields: " \o t : t \in ErrorTexts}
            /\ response[i].message = ProjectNotFound(createProjectId[i]) =>
                   /\ draftId[i] = NoId
                   /\ \A k \in LookupRequests(i) : http[i][k].reply # "id"

\* A createIssue invocation has sent no DELETE for a draft, and one that made a
\* draft and then failed has ended with an error response, the draft still
\* there and no issue made from it
FailedDraftKept ==
    \A i \in Inv :
        /\ \A k \in 1..Len(http[i]) : http[i][k].op # "DELETE /users/me/drafts/{id}"
        /\ (/\ pc[i] = "done"
            /\ draftId[i] # NoId
            /\ FieldCommandRejected(i)
                   \/ \E k \in Submissions(i) : http[i][k].reply \in ErrorTexts) =>
               /\ draftId[i] \in drafts
               /\ draftId[i] \notin issues
               /\ issue[i] = NoIssue
               /\ response[i].status = "error"

\* A draft leaves the drafts of the backend only by becoming an issue
DraftsOnlySubmitted == \A d \in drafts : d \in drafts' \/ d \in issues'

\* C28: createIssue never deletes a draft: a draft the backend handed out stays
\* a draft until it becomes an issue, whatever other calls are in flight, and a
\* createIssue that made a draft and then failed ends with an error response,
\* the draft still there and no issue made from it.
C28_DraftNeverCleanedUp == []FailedDraftKept /\ [][DraftsOnlySubmitted]_vars

C28_Witness ==
    \E i \in Inv :
        /\ pc[i] = "done"
        /\ draftId[i] = "draft-2"
        /\ \E k \in Submissions(i) : http[i][k].reply = "403 Forbidden"
        /\ drafts = {"draft-1", "draft-2"}
        /\ issues = {}

\* C29 as claimed: with no enforced project id, every call of the query tool
\* and every issues/query call fails with the missing-project-id error before
\* any backend call, whatever the query text is.
C29_EveryQueryCallNeedsProjectId ==
    \A s \in Inv :
        (/\ ~Truthy(defaultProjectId)
         /\ \/ toolReq[s].tool = "query"
            \/ toolReq[s].tool = "issues" /\ toolReq[s].action = "query") =>
            /\ clientCalls[s] = <<>>
            /\ toolResult[s].thrown = "McpError"
            /\ toolResult[s].code = "InternalError"
            /\ toolResult[s].message = "Tool execution failed: " \o MissingProjectIdError

\* C29, amended: with no enforced project id, every call of the query tool, and
\* every issues/query call whose query is present and not empty, fails with the
\* missing-project-id error before any backend call, also when the query has
\* its own project filter clause; an issues/query call with a missing or empty
\* query is rejected with InvalidParams 'Invalid parameter: query', also before
\* any backend call.
C29_QueryNeedsProjectId ==
    \A s \in Inv :
        (/\ ~Truthy(defaultProjectId)
         /\ \/ toolReq[s].tool = "query"
            \/ toolReq[s].tool = "issues" /\ toolReq[s].action = "query") =>
            /\ clientCalls[s] = <<>>
            /\ toolResult[s].thrown = "McpError"
            /\ IF toolReq[s].tool = "query" \/ toolReq[s].query \notin {NoQuery, <<>>}
               THEN /\ toolResult[s].code = "InternalError"
                    /\ toolResult[s].message
                          = "Tool execution failed: " \o MissingProjectIdError
               ELSE /\ toolResult[s].code = "InvalidParams"
                    /\ toolResult[s].message = "Invalid parameter: query"

C29_Witness ==
    \E s \in Inv :
        /\ defaultProjectId = NoId
        /\ toolReq[s].tool = "issues"
        /\ toolReq[s].action = "query"
        /\ IncludesProjectKw(toolReq[s].query)
        /\ toolResult[s].message = "Tool execution failed: " \o MissingProjectIdError
        /\ clientCalls[s] = <<>>

\* How far a createIssue invocation and an updateIssue call have come
CreateRank(p) ==
    CASE p = "idle" -> 0
      [] p = "lookup" -> 1
      [] p = "draft" -> 2
      [] p = "command" -> 3
      [] p = "submit" -> 4
      [] p = "bpCommand" -> 5
      [] p = "bpLookup" -> 6
      [] p = "bpSet" -> 7
      [] p = "done" -> 8
UpdateRank(p, idx) ==
    CASE p = "idle" -> 0
      [] p = "command" -> idx
      [] p = "basic" -> 7
      [] p = "tags" -> 8
      [] p = "refetch" -> 9
      [] p = "done" -> 10

\* A call in progress has sent fewer requests than its rank
CallsBounded ==
    /\ \A i \in Inv : /\ Len(http[i]) <= 7
                      /\ Len(http[i]) < CreateRank(pc[i]) \/ pc[i] = "idle"
    /\ Len(updHttp) <= 9
    /\ Len(updHttp) < UpdateRank(updPc, cmdIndex) \/ updPc = "idle"

\* Every step of a call in progress sends one request and raises its rank
StepAdvances ==
    /\ \A i \in Inv :
          (pc[i] \notin {"idle", "done"} /\ Locals(i)' # Locals(i)) =>
              /\ Len(http'[i]) = Len(http[i]) + 1
              /\ CreateRank(pc'[i]) > CreateRank(pc[i])
    /\ (updPc \notin {"idle", "done"} /\ updateVars' # updateVars) =>
          /\ Len(updHttp') = Len(updHttp) + 1
          /\ UpdateRank(updPc', cmdIndex') > UpdateRank(updPc, cmdIndex)

\* C30: every backend call returning, a createIssue invocation ends in a
\* response after at most 7 backend calls and an updateIssue call after at
\* most 9: each step sends one request and moves the call strictly forward.
C30_BoundedCalls == []CallsBounded /\ [][StepAdvances]_vars

C30_Witness ==
    \E i \in Inv :
        /\ pc[i] = "done"
        /\ Len(http[i]) = 7
        /\ http[i][1].op = "GET /admin/projects/{id}"
        /\ http[i][7].op = "POST /issues/{id}/customFields/{field}"
        /\ response[i].status = "success"

=============================================================================
